---------------------------- MODULE Spec2Model ----------------------------
(***************************************************************************)
(* Model of the request admission and dispatch core of deer-flow-go:      *)
(* pkg/queue (QueueManager, dispatcher, Worker), the error mapping of the  *)
(* Chat handler of pkg/handlers, the tool client of pkg/mcp with the       *)
(* streams of its child process, and the handlers of forecast requests     *)
(* up to the query WeatherClient.GetForecast sends.                        *)
(*                                                                         *)
(* Go channels are modelled as sequences: a buffered channel of capacity  *)
(* n is a sequence of length at most n, an unbuffered channel is a        *)
(* rendezvous between the sender's and the receiver's step.  A goroutine   *)
(* is a program counter.  Timers (time.After) carry no clock: a timeout    *)
(* branch of a select may be taken whenever no other branch of that        *)
(* select is ready.  A panic that no recover catches ends the process:     *)
(* crashed becomes TRUE and no action is enabled afterwards.               *)
(***************************************************************************)
EXTENDS Integers, Sequences, FiniteSets, TLC

(* ------------------------------ bounds -------------------------------- *)

\* QueueConfig.MaxWorkers: number of workers NewQueueManager creates.
MaxWorkers == 1

\* Largest QueueConfig.QueueSize a configuration may have.
MaxQueueSize == 2

\* Number of SubmitRequest invocations the environment makes.
NumCalls == 2

\* Number of QueueManager.Start calls that succeed (each spawns a dispatcher).
MaxStarts == 1

\* Number of SubmitRequest calls whose ctx the caller cancels.
MaxCancels == 1

\* Number of ProcessRequest invocations that return an error or panic.
MaxFaults == 1

\* Longest error message, in words, a processor returns to the Chat handler.
MaxErrLen == 3

\* Number of SubmitRequest calls made at once in the overflow scenario.
BurstCalls == 6

\* QueueConfig.QueueSize of the overflow scenario.
BurstQueueSize == 2

\* Number of Client.ProcessRequest invocations the environment makes.
NumClientCalls == 3

\* Number of frames the child writes that answer no request.
MaxUnsolicited == 1

\* Number of Client.Start invocations the environment makes.
MaxClientStarts == 2

\* Number of Client.Stop invocations the environment makes.
MaxClientStops == 2

\* Number of Client.ProcessRequest calls whose ctx the caller cancels.
MaxClientCancels == 1

\* Largest whole number of days a forecast request asks for.
MaxDaysArg == 7

\* Largest whole number of days below zero a forecast request asks for.
MaxNegDays == 2
MaxRequestTimeout == 60
MaxClock == 65

Calls == 1..NumCalls
Workers == 1..MaxWorkers
Dispatchers == 1..MaxStarts

\* Capacity of RequestTask.Response: make(chan *TaskResult, 1).
ResponseCap == 1

(* ------------------------------ state --------------------------------- *)

VARIABLES
  queueSize,      \* QueueConfig.QueueSize: capacity of taskQueue
  running,        \* QueueManager.running (0 or 1)
  taskQueue,      \* QueueManager.taskQueue: buffered channel of tasks
  taskQueueClosed,\* close(qm.taskQueue) has happened
  workerPool,     \* QueueManager.workerPool: buffered channel of worker slots
  totalRequests,  \* QueueManager.totalRequests
  processedCount, \* QueueManager.processedCount
  failedCount,    \* QueueManager.failedCount
  queuedCount,    \* QueueManager.queuedCount
  starts,         \* number of dispatcher goroutines spawned so far
  crashed,        \* an unrecovered panic has ended the process
  spc,            \* position of each SubmitRequest call
  cancelled,      \* the call's ctx is done
  ret,            \* what the call returned
  Response,       \* RequestTask.Response of the call's task
  dpc,            \* position of each dispatcher goroutine
  dtask,          \* the task a dispatcher has dequeued
  dworker,        \* the worker slot a dispatcher took from workerPool
  dtimer,         \* when the dispatcher armed time.After(QueueTimeout): the
                  \* number of SubmitRequest calls that had begun by then
  wpc,            \* position of each worker goroutine
  wtask,          \* the task a worker is executing
  quit,           \* close(w.quit) has happened
  sent,           \* history: TaskResults sent on the task's Response
  executed,       \* history: ProcessRequest invocations for the task
  inProgress,     \* history: ProcessRequest invocations that have not returned
  faults,         \* history: invocations that returned an error or panicked
  admitted,       \* history: tasks that were placed into taskQueue
  cancelledAfterHandoff, \* history: calls cancelled after a worker took the task
  ctxWoke,        \* calls whose blocked select was woken by ctx.Done
  decrements,     \* history: decrements of queuedCount made for the task
  abandoned,      \* history: calls that returned with their task in taskQueue
  enqueues,       \* history: number of sends on taskQueue so far
  ticket,         \* history: which send put the task into taskQueue, until
                  \* the dispatcher is done with the task
  stopReturned,   \* history: a Stop call that closed the queue has returned
  queuedAtStop,   \* history: tasks in taskQueue when that Stop was called
  lifecycle,      \* what the latest Start or Stop call returned
  chatPc,         \* position of the Chat handler's request
  chatErr,        \* err.Error() of what SubmitRequest returned to Chat
  chatStatus,     \* HTTP status Chat responded with
  chatCode,       \* "code" field of the JSON body Chat responded with
  clientRunning,  \* mcp.Client.running
  requestID,      \* mcp.Client.requestID
  mutex,          \* holder of mcp.Client.mutex: 0 when free
  stdin,          \* request frames written to the child and not yet read by it
  stdout,         \* frames the child has written and the client has not read
  cpc,            \* position of each Client.ProcessRequest call and of Start
  cid,            \* id of the request frame the call wrote
  cret,           \* what the call returned
  unsolicited,    \* history: frames the child wrote without a request
  creq,           \* the MCPRequest each ProcessRequest call was given
  cmd,            \* mcp.Client.cmd: the child spawned last, 0 when nil
  alive,          \* the child processes that are alive
  spawned,        \* history: number of child processes spawned so far
  written,        \* history: ids of the frames written to a child, in order
  cstarts,        \* history: number of Client.Start invocations
  cstops,         \* history: number of Client.Stop invocations
  cctx,           \* ProcessRequest calls whose ctx has been cancelled
  fpc,            \* position of the get_weather_forecast request
  fpath,          \* the handler that serves it, or GetForecast called directly
  farg,           \* its days argument
  fdays,          \* days as passed to WeatherClient.GetForecast
  fcnt,           \* cnt of the forecast query sent to the provider, 0: none
  RequestTimeout, \* qm.config.RequestTimeout of the timed request, seconds
  now,            \* seconds since its SubmitRequest armed time.After
  tpc,            \* position of its SubmitRequest call
  twpc,           \* position of the worker that serves it
  tctx,           \* value of now when the worker derived its context
  tresp,          \* what the worker sent on its Response
  tret,           \* what its SubmitRequest returned
  tat             \* value of now when its SubmitRequest returned

vars == <<queueSize, running, taskQueue, taskQueueClosed, workerPool, totalRequests,
          processedCount, failedCount, queuedCount, starts, crashed, spc,
          cancelled, ret, Response, dpc, dtask, dworker, dtimer, wpc, wtask,
          quit, sent, executed, inProgress, faults, admitted,
          cancelledAfterHandoff, ctxWoke, decrements, abandoned, enqueues,
          ticket,
          stopReturned, queuedAtStop, lifecycle,
          chatPc, chatErr, chatStatus, chatCode,
          clientRunning, requestID, mutex, stdin, stdout, cpc, cid, cret,
          unsolicited, creq, cmd, alive, spawned, written, cstarts, cstops,
          cctx, fpc, fpath, farg, fdays, fcnt,
          RequestTimeout, now, tpc, twpc, tctx, tresp, tret, tat>>

\* The state of the components around the queue: the HTTP handler.
apiVars == <<chatPc, chatErr, chatStatus, chatCode>>

\* The tool client (mcp.Client) and the streams of its child process.
clientVars == <<clientRunning, requestID, mutex, stdin, stdout, cpc, cid, cret,
               unsolicited, creq, cmd, alive, spawned, written, cstarts,
               cstops, cctx>>
\* One get_weather_forecast request on its way to the weather provider.
forecastVars == <<fpc, fpath, farg, fdays, fcnt>>

\* One request whose timers are followed on a clock.
timeVars == <<RequestTimeout, now, tpc, twpc, tctx, tresp, tret, tat>>

outerVars == <<apiVars, clientVars, forecastVars, timeVars>>

mgrVars == <<queueSize, running, taskQueueClosed, starts, quit, stopReturned,
            queuedAtStop, lifecycle>>
cntVars == <<totalRequests, processedCount, failedCount, queuedCount>>
subVars == <<spc, cancelled, ret>>
dispVars == <<dpc, dtask, dworker, dtimer>>
workVars == <<wpc, wtask>>
ordVars == <<enqueues, ticket, faults, admitted, cancelledAfterHandoff,
            ctxWoke, decrements, abandoned>>
invVars == <<executed, inProgress>>

(* --------------------------- data types ------------------------------- *)

\* TaskResult: kind "ok" is (Response, nil); every other kind is an error.
\* of is the task the result was produced for.
TaskResult(k, t) == [kind |-> k, of |-> t]

NoResult == [kind |-> "none", of |-> 0]

\* The errors SubmitRequest creates itself.
ErrNotRunning == "queue manager is not running"
ErrQueueFull == "request queue is full"
ErrRequestTimeout == "request timeout"
ErrContext == "context error"

\* What Start and Stop return: Start nil or the already-running error; Stop
\* returns nothing, after it has closed the channels or without doing so.
StartOk == "started"
ErrAlreadyRunning == "queue manager is already running"
StopDone == "stopped"
StopNoop == "stop: not running"

\* The errors the dispatcher and the worker create.
ErrAssignTimeout == "worker assignment timeout"
ErrNoWorkers == "no available workers"
ErrInternal == "internal error during task processing"

\* What RequestProcessor.ProcessRequest may do: return (r, nil), return
\* (nil, e), or panic.  The processor is opaque to the queue.
ProcessorOutcomes == {"ok", "processor error", "panic"}

\* The callers of Client.ProcessRequest, and the callers of Client.Start
\* and of Client.Stop.
ClientCalls == 1..NumClientCalls
StartCall == NumClientCalls + 1
StopCall == NumClientCalls + 2
ClientCallers == ClientCalls \cup {StartCall, StopCall}

\* MCPJSONRPCMessage as the client decodes it from a line of the child:
\* its id, and in kind what it carries: "error" an error object, "result"
\* a result object whose content[0].text is a string, "object" a result
\* object without such a content, "scalar" a result that is no JSON
\* object, and any other kind neither result nor error.  code and text are
\* the code and the message of the error object, or content[0].text.
Frame(id, kind) == [id |-> id, kind |-> kind, code |-> 0, text |-> <<>>]
ErrorFrame(id, code, text) ==
  [id |-> id, kind |-> "error", code |-> code, text |-> text]
ResultFrame(id, kind, text) ==
  [id |-> id, kind |-> kind, code |-> 0, text |-> text]

\* models.MCPResponse with the error ProcessRequest returns beside it.
\* kind tells what it is: "direct", "weather", "search" and "unknown" are
\* the Result {content: text, type: kind}, "raw" is the result object of
\* the child passed on as it came, "error" and the kinds named after a
\* message are an MCPError with code and text as Code and Message, and
\* the remaining kinds are the Go errors.  from is the id of the frame the
\* response was decoded from.
MCPResponse(kind, from, code, text) ==
  [kind |-> kind, from |-> from, code |-> code, text |-> text]
NoResponse == MCPResponse("none", 0, 0, <<>>)

\* models.MCPRequest: the method, and of Params whether it is a map and
\* whether the map has a string under "response".
MCPRequest(method, isMap, hasResponse, response) ==
  [method |-> method,
   params |-> [isMap |-> isMap, hasResponse |-> hasResponse,
               response |-> response]]
NoRequest == MCPRequest("none", FALSE, FALSE, <<>>)

\* The methods ProcessRequest forwards to the child as tools/call.
ToolMethods == {"get_weather", "get_weather_forecast", "search"}

\* The requests the callers make.
DirectResponses == {<<"hello">>, <<"bye">>}
ClientRequests ==
  {MCPRequest("get_weather", TRUE, FALSE, <<>>),
   MCPRequest("search", FALSE, FALSE, <<>>),
   MCPRequest("direct_response", FALSE, FALSE, <<>>),
   MCPRequest("direct_response", TRUE, FALSE, <<>>),
   MCPRequest("list_tools", TRUE, FALSE, <<>>)}
    \cup {MCPRequest("direct_response", TRUE, TRUE, r) : r \in DirectResponses}

\* The requests of the callers that run concurrently with Start and Stop.
ConcurrentRequests ==
  {MCPRequest("get_weather", TRUE, FALSE, <<>>),
   MCPRequest("direct_response", TRUE, TRUE, <<"hello">>)}

\* The error objects the child answers with.
ServerCodes == {-32000, -1}
ServerTexts == {<<"tool failed">>}

\* The substrings parseResponse looks for in the text of a tool result,
\* written as their code points: the sun-behind-cloud emoji and the word
\* for temperature, the magnifying glass and the word for search results.
WeatherMarks == {"U+1F324 U+FE0F", "U+6E29 U+5EA6"}
SearchMarks == {"U+1F50D", "U+641C U+7D22 U+7ED3 U+679C"}

\* The results the child answers with: a text content of each sort, a
\* result object without content, and a result that is no object.
ResultTexts ==
  {<<"U+1F324 U+FE0F", "sunny">>, <<"18", "U+6E29 U+5EA6">>,
   <<"U+1F50D", "found">>, <<"U+641C U+7D22 U+7ED3 U+679C", "U+6E29 U+5EA6">>,
   <<"done">>}
WeatherResult == [kind |-> "result", text |-> <<"U+1F324 U+FE0F", "sunny">>]
ServerResults ==
  {[kind |-> "result", text |-> t] : t \in ResultTexts}
    \cup {[kind |-> "object", text |-> <<>>], [kind |-> "scalar", text |-> <<>>]}

\* What Client.Start finds when it creates the pipes and starts the child:
\* the child runs, or StdinPipe, StdoutPipe or cmd.Start returned an error.
StartOutcomes ==
  {"spawned", "failed to create stdin pipe", "failed to create stdout pipe",
   "failed to start MCP server"}

\* The days argument of a get_weather_forecast request as the handlers find
\* it in the decoded JSON: absent, present and not a number, or a float64,
\* held here in tenths.
DaysTenths == (-(MaxNegDays * 10) - 9)..(MaxDaysArg * 10 + 9)
DayInts == (-MaxNegDays)..MaxDaysArg
NoDaysArg == [present |-> FALSE, number |-> FALSE, tenths |-> 0]
DaysArgs ==
  {NoDaysArg, [present |-> TRUE, number |-> FALSE, tenths |-> 0]}
    \cup {[present |-> TRUE, number |-> TRUE, tenths |-> t] : t \in DaysTenths}

\* The timeouts, in seconds.  NewQueueManager replaces a RequestTimeout
\* that is not positive by DefaultRequestTimeout; processTask derives the
\* context of every invocation with WorkerTimeout.
DefaultRequestTimeout == 30
WorkerTimeout == 30
ErrDeadlineExceeded == "context deadline exceeded"

\* The values of QueueConfig.RequestTimeout the manager is built with: 0 is
\* a configuration that leaves it unset.
ConfiguredTimeouts == {c \in 0..MaxRequestTimeout : c % 5 = 0}

(* ------------------------------- Init --------------------------------- *)

\* NewQueueManager for a configuration with positive bounds: empty
\* channels, workers created but not started, counters zero, running 0.
Init ==
  /\ queueSize \in 1..MaxQueueSize
  /\ running = 0
  /\ taskQueue = <<>>
  /\ taskQueueClosed = FALSE
  /\ workerPool = <<>>
  /\ totalRequests = 0
  /\ processedCount = 0
  /\ failedCount = 0
  /\ queuedCount = 0
  /\ starts = 0
  /\ crashed = FALSE
  /\ spc = [c \in Calls |-> "idle"]
  /\ cancelled = [c \in Calls |-> FALSE]
  /\ ret = [c \in Calls |-> NoResult]
  /\ Response = [c \in Calls |-> <<>>]
  /\ dpc = [d \in Dispatchers |-> "none"]
  /\ dtask = [d \in Dispatchers |-> 0]
  /\ dworker = [d \in Dispatchers |-> 0]
  /\ dtimer = [d \in Dispatchers |-> 0]
  /\ wpc = [w \in Workers |-> "stopped"]
  /\ wtask = [w \in Workers |-> 0]
  /\ quit = [w \in Workers |-> FALSE]
  /\ sent = [c \in Calls |-> 0]
  /\ executed = [c \in Calls |-> 0]
  /\ faults = 0
  /\ inProgress = 0
  /\ admitted = {}
  /\ cancelledAfterHandoff = {}
  /\ ctxWoke = {}
  /\ decrements = [c \in Calls |-> 0]
  /\ abandoned = {}
  /\ enqueues = 0
  /\ ticket = [c \in Calls |-> 0]
  /\ stopReturned = FALSE
  /\ queuedAtStop = {}
  /\ lifecycle = "none"
  /\ chatPc = "idle"
  /\ chatErr = <<>>
  /\ chatStatus = 0
  /\ chatCode = ""
  /\ clientRunning = FALSE
  /\ requestID = 0
  /\ mutex = 0
  /\ stdin = <<>>
  /\ stdout = <<>>
  /\ cpc = [c \in ClientCallers |-> "idle"]
  /\ cid = [c \in ClientCallers |-> 0]
  /\ cret = [c \in ClientCallers |-> NoResponse]
  /\ unsolicited = 0
  /\ creq = [c \in ClientCalls |-> NoRequest]
  /\ cmd = 0
  /\ alive = {}
  /\ spawned = 0
  /\ written = <<>>
  /\ cstarts = 0
  /\ cstops = 0
  /\ cctx = {}
  /\ fpc = "idle"
  /\ fpath = "none"
  /\ farg = NoDaysArg
  /\ fdays = 0
  /\ fcnt = 0
  /\ RequestTimeout = 0
  /\ now = 0
  /\ tpc = "idle"
  /\ twpc = "idle"
  /\ tctx = 0
  /\ tresp = "none"
  /\ tret = "none"
  /\ tat = 0


(* ------------------------- channel helpers ---------------------------- *)

Range(s) == {s[i] : i \in 1..Len(s)}

\* Worker.IsRunning: w.running is 1 from Start's CompareAndSwap until the
\* goroutine's deferred StoreInt32(&w.running, 0), which the model takes in
\* the same step as the goroutine's return.
IsRunning(w) == wpc[w] # "stopped"

\* Mutant: Response is made without a buffer, so a send proceeds only
\* while SubmitRequest is still waiting in its second select.
ResponseHasRoom_Unbuffered(t) ==
  spc[t] = "wait" /\ Len(Response[t]) < ResponseCap

\* A blocking or select send on task.Response can proceed.
ResponseHasRoom(t) == Len(Response[t]) < ResponseCap

(* ------------------------ QueueManager.Start -------------------------- *)

\* Start, running 0 -> 1: Worker.Start for every worker (a worker whose
\* goroutine is still alive keeps it), then go qm.dispatcher().
Start ==
  /\ ~crashed
  /\ running = 0
  /\ starts < MaxStarts
  /\ running' = 1
  /\ wpc' = [w \in Workers |-> IF IsRunning(w) THEN wpc[w] ELSE "register"]
  /\ starts' = starts + 1
  /\ dpc' = [dpc EXCEPT ![starts + 1] = "recv"]
  /\ lifecycle' = StartOk
  /\ UNCHANGED <<outerVars, queueSize, taskQueue, taskQueueClosed, workerPool, cntVars,
                 crashed, subVars, Response, dtask, dworker, dtimer, wtask, quit,
                 sent, invVars, ordVars, stopReturned, queuedAtStop>>

\* Mutant: Start runs the worker start-up before it looks at running, with
\* no guard in Worker.Start: every worker begins its loop anew.
StartAlreadyRunning_Restart ==
  /\ ~crashed
  /\ running = 1
  /\ lifecycle' = ErrAlreadyRunning
  /\ wpc' = [w \in Workers |-> "register"]
  /\ UNCHANGED <<outerVars, queueSize, running, taskQueueClosed, starts, quit,
                 stopReturned, queuedAtStop, taskQueue, workerPool, cntVars,
                 crashed, subVars, Response, dispVars, wtask, sent, invVars,
                 ordVars>>

\* Start while running = 1: the CompareAndSwap fails and Start returns the
\* already-running error.
StartAlreadyRunning ==
  /\ ~crashed
  /\ running = 1
  /\ lifecycle' = ErrAlreadyRunning
  /\ UNCHANGED <<outerVars, queueSize, running, taskQueueClosed, starts, quit,
                 stopReturned, queuedAtStop, taskQueue, workerPool, cntVars,
                 crashed, subVars, Response, dispVars, workVars, sent,
                 invVars, ordVars>>

\* IsHealthy: running is 1.
IsHealthy == running = 1

(* ------------------------- QueueManager.Stop -------------------------- *)

\* The workers Worker.Stop would close a closed quit channel of.
DoubleClose == {w \in Workers : IsRunning(w) /\ quit[w]}

\* Stop, running 1 -> 0: close(qm.taskQueue), then Worker.Stop for every
\* worker in order.  Closing a closed channel panics.
Stop ==
  /\ ~crashed
  /\ running = 1
  /\ running' = 0
  /\ IF taskQueueClosed
       THEN /\ crashed' = TRUE
            /\ UNCHANGED <<taskQueueClosed, quit, stopReturned, queuedAtStop,
                           lifecycle>>
       ELSE /\ taskQueueClosed' = TRUE
            /\ IF DoubleClose # {}
                 THEN LET first == CHOOSE w \in DoubleClose :
                                     \A v \in DoubleClose : w <= v
                      IN /\ crashed' = TRUE
                         /\ quit' = [w \in Workers |->
                                       IF w < first /\ IsRunning(w)
                                         THEN TRUE ELSE quit[w]]
                         /\ UNCHANGED <<stopReturned, queuedAtStop, lifecycle>>
                 ELSE /\ crashed' = FALSE
                      /\ quit' = [w \in Workers |->
                                    IF IsRunning(w) THEN TRUE ELSE quit[w]]
                      /\ stopReturned' = TRUE
                      /\ queuedAtStop' = Range(taskQueue)
                      /\ lifecycle' = StopDone
  /\ UNCHANGED <<outerVars, queueSize, taskQueue, workerPool, cntVars, starts, subVars,
                 Response, dispVars, workVars, sent, invVars, ordVars>>

\* Mutant: Stop without the CompareAndSwap guard closes the task queue
\* whatever running is; closing the closed channel panics.
StopNotRunning_NoGuard ==
  /\ ~crashed
  /\ running = 0
  /\ IF taskQueueClosed
       THEN crashed' = TRUE /\ UNCHANGED <<taskQueueClosed, lifecycle>>
       ELSE /\ taskQueueClosed' = TRUE
            /\ lifecycle' = StopNoop
            /\ UNCHANGED crashed
  /\ UNCHANGED <<outerVars, queueSize, running, starts, quit, stopReturned,
                 queuedAtStop, taskQueue, workerPool, cntVars, subVars,
                 Response, dispVars, workVars, sent, invVars, ordVars>>

\* Stop while running = 0: the CompareAndSwap fails and Stop returns
\* without closing anything.
StopNotRunning ==
  /\ ~crashed
  /\ running = 0
  /\ lifecycle' = StopNoop
  /\ UNCHANGED <<outerVars, queueSize, running, taskQueueClosed, starts, quit,
                 stopReturned, queuedAtStop, taskQueue, workerPool, cntVars,
                 crashed, subVars, Response, dispVars, workVars, sent,
                 invVars, ordVars>>

(* --------------------- QueueManager.SubmitRequest --------------------- *)

\* Mutant: totalRequests is incremented before the running check.
SubmitRequest_CountFirst(c) ==
  /\ ~crashed
  /\ spc[c] = "idle"
  /\ IF c = 1 THEN TRUE ELSE spc[c - 1] # "idle"
  /\ IF running = 0
       THEN /\ ret' = [ret EXCEPT ![c] = TaskResult(ErrNotRunning, c)]
            /\ spc' = [spc EXCEPT ![c] = "done"]
            /\ totalRequests' = totalRequests + 1
       ELSE /\ totalRequests' = totalRequests + 1
            /\ spc' = [spc EXCEPT ![c] = "enqueue"]
            /\ UNCHANGED ret
  /\ UNCHANGED <<outerVars, mgrVars, taskQueue, workerPool, processedCount, failedCount,
                 queuedCount, crashed, cancelled, Response, dispVars,
                 workVars, sent, invVars, ordVars>>

\* The running check and, when it passes, the AddInt64 on totalRequests
\* that numbers the task.  Calls are numbered in the order they are made.
SubmitRequest(c) ==
  /\ ~crashed
  /\ spc[c] = "idle"
  /\ IF c = 1 THEN TRUE ELSE spc[c - 1] # "idle"
  /\ IF running = 0
       THEN /\ ret' = [ret EXCEPT ![c] = TaskResult(ErrNotRunning, c)]
            /\ spc' = [spc EXCEPT ![c] = "done"]
            /\ UNCHANGED totalRequests
       ELSE /\ totalRequests' = totalRequests + 1
            /\ spc' = [spc EXCEPT ![c] = "enqueue"]
            /\ UNCHANGED ret
  /\ UNCHANGED <<outerVars, mgrVars, taskQueue, workerPool, processedCount, failedCount,
                 queuedCount, crashed, cancelled, Response, dispVars,
                 workVars, sent, invVars, ordVars>>

\* Mutant: the task queue is unbounded: the send never has to wait.
SubmitEnqueue_NoLimit(c) ==
  /\ ~crashed
  /\ spc[c] = "enqueue"
  /\ c \notin ctxWoke
  /\ IF taskQueueClosed
       THEN /\ crashed' = TRUE
            /\ UNCHANGED <<taskQueue, spc, enqueues, ticket, admitted>>
       ELSE /\ taskQueue' = Append(taskQueue, c)
            /\ enqueues' = enqueues + 1
            /\ ticket' = [ticket EXCEPT ![c] = enqueues + 1]
            /\ admitted' = admitted \cup {c}
            /\ spc' = [spc EXCEPT ![c] = "count"]
            /\ UNCHANGED crashed
  /\ UNCHANGED <<outerVars, mgrVars, workerPool, cntVars, cancelled, ret, Response,
                 dispVars, workVars, sent, invVars, faults,
                 cancelledAfterHandoff, ctxWoke, decrements, abandoned>>

\* First select, case qm.taskQueue <- task.  A send on a closed channel
\* panics.
SubmitEnqueue(c) ==
  /\ ~crashed
  /\ spc[c] = "enqueue"
  /\ c \notin ctxWoke
  /\ IF taskQueueClosed
       THEN /\ crashed' = TRUE
            /\ UNCHANGED <<taskQueue, spc, enqueues, ticket, admitted>>
       ELSE /\ Len(taskQueue) < queueSize
            /\ taskQueue' = Append(taskQueue, c)
            /\ enqueues' = enqueues + 1
            /\ ticket' = [ticket EXCEPT ![c] = enqueues + 1]
            /\ admitted' = admitted \cup {c}
            /\ spc' = [spc EXCEPT ![c] = "count"]
            /\ UNCHANGED crashed
  /\ UNCHANGED <<outerVars, mgrVars, workerPool, cntVars, cancelled, ret, Response,
                 dispVars, workVars, sent, invVars, faults,
                 cancelledAfterHandoff, ctxWoke, decrements, abandoned>>

\* Mutant: the queue-timeout branch counts the rejected task as queued.
SubmitQueueTimeout_Counted(c) ==
  /\ ~crashed
  /\ spc[c] = "enqueue"
  /\ c \notin ctxWoke
  /\ ~taskQueueClosed
  /\ Len(taskQueue) = queueSize
  /\ failedCount' = failedCount + 1
  /\ queuedCount' = queuedCount + 1
  /\ ret' = [ret EXCEPT ![c] = TaskResult(ErrQueueFull, c)]
  /\ spc' = [spc EXCEPT ![c] = "done"]
  /\ UNCHANGED <<outerVars, mgrVars, taskQueue, workerPool, totalRequests,
                 processedCount, crashed, cancelled, Response,
                 dispVars, workVars, sent, invVars, ordVars>>

\* First select, case <-time.After(QueueTimeout): the queue stayed full.
SubmitQueueTimeout(c) ==
  /\ ~crashed
  /\ spc[c] = "enqueue"
  /\ c \notin ctxWoke
  /\ ~taskQueueClosed
  /\ Len(taskQueue) = queueSize
  /\ failedCount' = failedCount + 1
  /\ ret' = [ret EXCEPT ![c] = TaskResult(ErrQueueFull, c)]
  /\ spc' = [spc EXCEPT ![c] = "done"]
  /\ UNCHANGED <<outerVars, mgrVars, taskQueue, workerPool, totalRequests,
                 processedCount, queuedCount, crashed, cancelled, Response,
                 dispVars, workVars, sent, invVars, ordVars>>

\* First select, case <-ctx.Done().
SubmitEnqueueCancelled(c) ==
  /\ ~crashed
  /\ spc[c] = "enqueue"
  /\ cancelled[c]
  /\ failedCount' = failedCount + 1
  /\ ret' = [ret EXCEPT ![c] = TaskResult(ErrContext, c)]
  /\ spc' = [spc EXCEPT ![c] = "done"]
  /\ UNCHANGED <<outerVars, mgrVars, taskQueue, workerPool, totalRequests,
                 processedCount, queuedCount, crashed, cancelled, Response,
                 dispVars, workVars, sent, invVars, ordVars>>

\* atomic.AddInt64(&qm.queuedCount, 1) after the send succeeded.
SubmitCountQueued(c) ==
  /\ ~crashed
  /\ spc[c] = "count"
  /\ queuedCount' = queuedCount + 1
  /\ spc' = [spc EXCEPT ![c] = "wait"]
  /\ UNCHANGED <<outerVars, mgrVars, taskQueue, workerPool, totalRequests,
                 processedCount, failedCount, crashed, cancelled, ret,
                 Response, dispVars, workVars, sent, invVars, ordVars>>

\* Mutant: a call that has already returned still takes a TaskResult that
\* arrives on its Response channel and counts it.
SubmitReceive_Late(c) ==
  /\ ~crashed
  /\ spc[c] \in {"wait", "done"}
  /\ c \notin ctxWoke
  /\ Response[c] # <<>>
  /\ LET result == Head(Response[c])
     IN /\ Response' = [Response EXCEPT ![c] = Tail(Response[c])]
        /\ ret' = [ret EXCEPT ![c] = result]
        /\ IF result.kind # "ok"
             THEN /\ failedCount' = failedCount + 1
                  /\ UNCHANGED processedCount
             ELSE /\ processedCount' = processedCount + 1
                  /\ UNCHANGED failedCount
  /\ spc' = [spc EXCEPT ![c] = "done"]
  /\ UNCHANGED <<outerVars, mgrVars, taskQueue, workerPool, totalRequests, queuedCount,
                 crashed, cancelled, dispVars, workVars, sent, invVars, ordVars>>

\* Mutant: SubmitRequest wraps the error of a TaskResult in an error of its
\* own instead of returning it as it is.
SubmitReceive_Wrapped(c) ==
  /\ ~crashed
  /\ spc[c] = "wait"
  /\ c \notin ctxWoke
  /\ Response[c] # <<>>
  /\ LET result == Head(Response[c])
     IN /\ Response' = [Response EXCEPT ![c] = Tail(Response[c])]
        /\ IF result.kind # "ok"
             THEN /\ failedCount' = failedCount + 1
                  /\ ret' = [ret EXCEPT ![c] = TaskResult("request failed", c)]
                  /\ UNCHANGED processedCount
             ELSE /\ processedCount' = processedCount + 1
                  /\ ret' = [ret EXCEPT ![c] = result]
                  /\ UNCHANGED failedCount
  /\ spc' = [spc EXCEPT ![c] = "done"]
  /\ UNCHANGED <<outerVars, mgrVars, taskQueue, workerPool, totalRequests, queuedCount,
                 crashed, cancelled, dispVars, workVars, sent, invVars, ordVars>>

\* Second select, case result := <-task.Response.
SubmitReceive(c) ==
  /\ ~crashed
  /\ spc[c] = "wait"
  /\ c \notin ctxWoke
  /\ Response[c] # <<>>
  /\ LET result == Head(Response[c])
     IN /\ Response' = [Response EXCEPT ![c] = Tail(Response[c])]
        /\ ret' = [ret EXCEPT ![c] = result]
        /\ IF result.kind # "ok"
             THEN /\ failedCount' = failedCount + 1
                  /\ UNCHANGED processedCount
             ELSE /\ processedCount' = processedCount + 1
                  /\ UNCHANGED failedCount
  /\ spc' = [spc EXCEPT ![c] = "done"]
  /\ UNCHANGED <<outerVars, mgrVars, taskQueue, workerPool, totalRequests, queuedCount,
                 crashed, cancelled, dispVars, workVars, sent, invVars, ordVars>>

\* Second select, case <-time.After(RequestTimeout): no result arrived.
SubmitRequestTimeout(c) ==
  /\ ~crashed
  /\ spc[c] = "wait"
  /\ c \notin ctxWoke
  /\ Response[c] = <<>>
  /\ failedCount' = failedCount + 1
  /\ ret' = [ret EXCEPT ![c] = TaskResult(ErrRequestTimeout, c)]
  /\ abandoned' = IF c \in Range(taskQueue) THEN abandoned \cup {c} ELSE abandoned
  /\ spc' = [spc EXCEPT ![c] = "done"]
  /\ UNCHANGED <<outerVars, mgrVars, taskQueue, workerPool, totalRequests,
                 processedCount, queuedCount, crashed, cancelled, Response,
                 dispVars, workVars, sent, invVars, enqueues, ticket,
                 faults, admitted, cancelledAfterHandoff, ctxWoke,
                 decrements>>

\* Mutant: the ctx.Done branch of the second select is taken only once the
\* worker is out of ProcessRequest.
SubmitWaitCancelled_AfterWorker(c) ==
  /\ ~crashed
  /\ spc[c] = "wait"
  /\ cancelled[c]
  /\ \A w \in Workers : ~(wpc[w] = "processing" /\ wtask[w] = c)
  /\ failedCount' = failedCount + 1
  /\ ret' = [ret EXCEPT ![c] = TaskResult(ErrContext, c)]
  /\ abandoned' = IF c \in Range(taskQueue) THEN abandoned \cup {c} ELSE abandoned
  /\ spc' = [spc EXCEPT ![c] = "done"]
  /\ UNCHANGED <<outerVars, mgrVars, taskQueue, workerPool, totalRequests,
                 processedCount, queuedCount, crashed, cancelled, Response,
                 dispVars, workVars, sent, invVars, enqueues, ticket,
                 faults, admitted, cancelledAfterHandoff, ctxWoke,
                 decrements>>

\* Mutant: the ctx.Done branch of the second select counts the call as
\* processed.
SubmitWaitCancelled_Processed(c) ==
  /\ ~crashed
  /\ spc[c] = "wait"
  /\ cancelled[c]
  /\ processedCount' = processedCount + 1
  /\ ret' = [ret EXCEPT ![c] = TaskResult(ErrContext, c)]
  /\ abandoned' = IF c \in Range(taskQueue) THEN abandoned \cup {c} ELSE abandoned
  /\ spc' = [spc EXCEPT ![c] = "done"]
  /\ UNCHANGED <<outerVars, mgrVars, taskQueue, workerPool, totalRequests,
                 failedCount, queuedCount, crashed, cancelled, Response,
                 dispVars, workVars, sent, invVars, enqueues, ticket,
                 faults, admitted, cancelledAfterHandoff, ctxWoke,
                 decrements>>

\* Mutant: the ctx.Done branch of the second select returns without counting.
SubmitWaitCancelled_NoCount(c) ==
  /\ ~crashed
  /\ spc[c] = "wait"
  /\ cancelled[c]
  /\ failedCount' = failedCount
  /\ ret' = [ret EXCEPT ![c] = TaskResult(ErrContext, c)]
  /\ abandoned' = IF c \in Range(taskQueue) THEN abandoned \cup {c} ELSE abandoned
  /\ spc' = [spc EXCEPT ![c] = "done"]
  /\ UNCHANGED <<outerVars, mgrVars, taskQueue, workerPool, totalRequests,
                 processedCount, queuedCount, crashed, cancelled, Response,
                 dispVars, workVars, sent, invVars, enqueues, ticket,
                 faults, admitted, cancelledAfterHandoff, ctxWoke,
                 decrements>>

\* Second select, case <-ctx.Done().
SubmitWaitCancelled(c) ==
  /\ ~crashed
  /\ spc[c] = "wait"
  /\ cancelled[c]
  /\ failedCount' = failedCount + 1
  /\ ret' = [ret EXCEPT ![c] = TaskResult(ErrContext, c)]
  /\ abandoned' = IF c \in Range(taskQueue) THEN abandoned \cup {c} ELSE abandoned
  /\ spc' = [spc EXCEPT ![c] = "done"]
  /\ UNCHANGED <<outerVars, mgrVars, taskQueue, workerPool, totalRequests,
                 processedCount, queuedCount, crashed, cancelled, Response,
                 dispVars, workVars, sent, invVars, enqueues, ticket,
                 faults, admitted, cancelledAfterHandoff, ctxWoke,
                 decrements>>

\* The goroutine of the call can be parked in one of its two selects: it
\* is at the select and no channel case of it is ready, the queue is full
\* and open at the first, no TaskResult is buffered at the second.
SelectBlocked(c) ==
  \/ spc[c] = "enqueue" /\ ~taskQueueClosed /\ Len(taskQueue) >= queueSize
  \/ spc[c] = "wait" /\ Response[c] = <<>>

\* The caller cancels the ctx it passed to a SubmitRequest call that has
\* not returned yet.  The close of ctx.Done wakes the goroutine when it is
\* parked in a select, and the select then takes its ctx.Done case whatever
\* becomes ready afterwards; a goroutine that has not reached the select, or
\* whose timer has fired, chooses among the ready cases when it runs.
CancelContext(c) ==
  /\ ~crashed
  /\ spc[c] \in {"enqueue", "count", "wait"}
  /\ ~cancelled[c]
  /\ Cardinality({b \in Calls : cancelled[b]}) < MaxCancels
  /\ cancelled' = [cancelled EXCEPT ![c] = TRUE]
  /\ cancelledAfterHandoff' = IF executed[c] > 0
                                THEN cancelledAfterHandoff \cup {c}
                                ELSE cancelledAfterHandoff
  /\ \E blocked \in BOOLEAN :
       /\ blocked => SelectBlocked(c)
       /\ ctxWoke' = IF blocked THEN ctxWoke \cup {c} ELSE ctxWoke
  /\ UNCHANGED <<outerVars, mgrVars, taskQueue, workerPool, cntVars, crashed, spc, ret,
                 Response, dispVars, workVars, sent, invVars, enqueues,
                 ticket, faults, admitted, decrements, abandoned>>

(* ---------------------- QueueManager.dispatcher ----------------------- *)

\* Mutant: the dispatcher takes the task that entered the queue last.
DispatcherReceive_Last(d) ==
  /\ ~crashed
  /\ dpc[d] = "recv"
  /\ IF taskQueue # <<>>
       THEN /\ dtask' = [dtask EXCEPT ![d] = taskQueue[Len(taskQueue)]]
            /\ dtimer' = [dtimer EXCEPT ![d] = totalRequests]
            /\ taskQueue' = SubSeq(taskQueue, 1, Len(taskQueue) - 1)
            /\ dpc' = [dpc EXCEPT ![d] = "getWorker"]
       ELSE /\ taskQueueClosed
            /\ dpc' = [dpc EXCEPT ![d] = "exited"]
            /\ UNCHANGED <<dtask, dtimer, taskQueue>>
  /\ UNCHANGED <<outerVars, mgrVars, workerPool, cntVars, crashed, subVars, Response,
                 dworker, workVars, sent, invVars, ordVars>>

\* Mutant: the dispatcher reads the task at the head of the queue and
\* leaves it there.
DispatcherReceive_Peek(d) ==
  /\ ~crashed
  /\ dpc[d] = "recv"
  /\ IF taskQueue # <<>>
       THEN /\ dtask' = [dtask EXCEPT ![d] = Head(taskQueue)]
            /\ dtimer' = [dtimer EXCEPT ![d] = totalRequests]
            /\ taskQueue' = taskQueue
            /\ dpc' = [dpc EXCEPT ![d] = "getWorker"]
       ELSE /\ taskQueueClosed
            /\ dpc' = [dpc EXCEPT ![d] = "exited"]
            /\ UNCHANGED <<dtask, dtimer, taskQueue>>
  /\ UNCHANGED <<outerVars, mgrVars, workerPool, cntVars, crashed, subVars, Response,
                 dworker, workVars, sent, invVars, ordVars>>

\* Mutant: the dispatcher looks at the task it received and drops it when
\* its SubmitRequest call has already returned.
DispatcherReceive_SkipReturned(d) ==
  /\ ~crashed
  /\ dpc[d] = "recv"
  /\ IF taskQueue # <<>>
       THEN /\ taskQueue' = Tail(taskQueue)
            /\ IF spc[Head(taskQueue)] = "done"
                 THEN UNCHANGED <<dtask, dtimer, dpc>>
                 ELSE /\ dtask' = [dtask EXCEPT ![d] = Head(taskQueue)]
                      /\ dtimer' = [dtimer EXCEPT ![d] = totalRequests]
                      /\ dpc' = [dpc EXCEPT ![d] = "getWorker"]
       ELSE /\ taskQueueClosed
            /\ dpc' = [dpc EXCEPT ![d] = "exited"]
            /\ UNCHANGED <<dtask, dtimer, taskQueue>>
  /\ UNCHANGED <<outerVars, mgrVars, workerPool, cntVars, crashed, subVars, Response,
                 dworker, workVars, sent, invVars, ordVars>>

\* case task, ok := <-qm.taskQueue: a buffered task is received even after
\* close; a closed and empty queue yields !ok and the dispatcher returns.
DispatcherReceive(d) ==
  /\ ~crashed
  /\ dpc[d] = "recv"
  /\ IF taskQueue # <<>>
       THEN /\ dtask' = [dtask EXCEPT ![d] = Head(taskQueue)]
            /\ dtimer' = [dtimer EXCEPT ![d] = totalRequests]
            /\ taskQueue' = Tail(taskQueue)
            /\ dpc' = [dpc EXCEPT ![d] = "getWorker"]
       ELSE /\ taskQueueClosed
            /\ dpc' = [dpc EXCEPT ![d] = "exited"]
            /\ UNCHANGED <<dtask, dtimer, taskQueue>>
  /\ UNCHANGED <<outerVars, mgrVars, workerPool, cntVars, crashed, subVars, Response,
                 dworker, workVars, sent, invVars, ordVars>>

\* case workerTaskQueue := <-qm.workerPool.
DispatcherGetWorker(d) ==
  /\ ~crashed
  /\ dpc[d] = "getWorker"
  /\ workerPool # <<>>
  /\ dworker' = [dworker EXCEPT ![d] = Head(workerPool)]
  /\ workerPool' = Tail(workerPool)
  /\ dpc' = [dpc EXCEPT ![d] = "assign"]
  /\ UNCHANGED <<outerVars, mgrVars, taskQueue, cntVars, crashed, subVars, Response,
                 dtask, dtimer, workVars, sent, invVars, ordVars>>

\* Mutant: the no-worker timeout gives the task up without sending a TaskResult.
DispatcherNoWorker_Silent(d) ==
  /\ ~crashed
  /\ dpc[d] = "getWorker"
  /\ workerPool = <<>>
  /\ dpc' = [dpc EXCEPT ![d] = "decrement"]
  /\ UNCHANGED <<Response, sent>>
  /\ UNCHANGED <<outerVars, mgrVars, taskQueue, workerPool, cntVars, crashed, subVars,
                 dtask, dworker, dtimer, workVars, invVars, ordVars>>

\* Mutant: the inner select has no time.After case: the dispatcher waits
\* for a worker slot without limit.
DispatcherNoWorker_Never(d) ==
  /\ ~crashed
  /\ dpc[d] = "getWorker"
  /\ workerPool = <<>>
  /\ FALSE
  /\ UNCHANGED vars

\* Mutant: after the no-worker timeout the dispatcher keeps the task and
\* goes on waiting for a slot to hand it to.
DispatcherNoWorker_Retry(d) ==
  /\ ~crashed
  /\ dpc[d] = "getWorker"
  /\ workerPool = <<>>
  /\ ResponseHasRoom(dtask[d])
  /\ sent[dtask[d]] = 0
  /\ Response' = [Response EXCEPT
       ![dtask[d]] = Append(@, TaskResult(ErrNoWorkers, dtask[d]))]
  /\ sent' = [sent EXCEPT ![dtask[d]] = @ + 1]
  /\ UNCHANGED <<outerVars, mgrVars, taskQueue, workerPool, cntVars, crashed, subVars,
                 dispVars, workVars, invVars, ordVars>>

\* case <-time.After(QueueTimeout): no slot was published; the blocking
\* send task.Response <- "no available workers".
DispatcherNoWorker(d) ==
  /\ ~crashed
  /\ dpc[d] = "getWorker"
  /\ workerPool = <<>>
  /\ IF ResponseHasRoom(dtask[d])
       THEN /\ Response' = [Response EXCEPT
                 ![dtask[d]] = Append(@, TaskResult(ErrNoWorkers, dtask[d]))]
            /\ sent' = [sent EXCEPT ![dtask[d]] = @ + 1]
            /\ dpc' = [dpc EXCEPT ![d] = "decrement"]
       ELSE /\ dpc' = [dpc EXCEPT ![d] = "sendBlocked"]
            /\ UNCHANGED <<Response, sent>>
  /\ UNCHANGED <<outerVars, mgrVars, taskQueue, workerPool, cntVars, crashed, subVars,
                 dtask, dworker, dtimer, workVars, invVars, ordVars>>

\* Mutant: the worker runs processTask in a goroutine of its own
\* (go w.processTask(task)) and goes straight back to publishing its slot.
DispatcherAssign_Async(d) ==
  /\ ~crashed
  /\ dpc[d] = "assign"
  /\ wpc[dworker[d]] = "waitTask"
  /\ wpc' = [wpc EXCEPT ![dworker[d]] = "register"]
  /\ executed' = [executed EXCEPT ![dtask[d]] = @ + 1]
  /\ inProgress' = inProgress + 1
  /\ dpc' = [dpc EXCEPT ![d] = "decrement"]
  /\ UNCHANGED <<outerVars, mgrVars, taskQueue, workerPool, cntVars, crashed, subVars,
                 Response, dtask, dworker, dtimer, wtask, sent, ordVars>>

\* case workerTaskQueue <- task: rendezvous with the worker that waits on
\* its unbuffered taskQueue (Worker.Start, case task := <-w.taskQueue),
\* which then calls processTask and, in it, the processor.
DispatcherAssign(d) ==
  /\ ~crashed
  /\ dpc[d] = "assign"
  /\ wpc[dworker[d]] = "waitTask"
  /\ wpc' = [wpc EXCEPT ![dworker[d]] = "processing"]
  /\ wtask' = [wtask EXCEPT ![dworker[d]] = dtask[d]]
  /\ executed' = [executed EXCEPT ![dtask[d]] = @ + 1]
  /\ inProgress' = inProgress + 1
  /\ dpc' = [dpc EXCEPT ![d] = "decrement"]
  /\ UNCHANGED <<outerVars, mgrVars, taskQueue, workerPool, cntVars, crashed, subVars,
                 Response, dtask, dworker, dtimer, sent, ordVars>>

\* Mutant: the hand-off timeout sends the error and returns to the top of
\* the loop without the decrement of queuedCount.
DispatcherAssignTimeout_NoDecrement(d) ==
  /\ ~crashed
  /\ dpc[d] = "assign"
  /\ wpc[dworker[d]] # "waitTask"
  /\ IF ResponseHasRoom(dtask[d])
       THEN /\ Response' = [Response EXCEPT
                 ![dtask[d]] = Append(@, TaskResult(ErrAssignTimeout, dtask[d]))]
            /\ sent' = [sent EXCEPT ![dtask[d]] = @ + 1]
            /\ dpc' = [dpc EXCEPT ![d] = "recv"]
            /\ dtask' = [dtask EXCEPT ![d] = 0]
            /\ dworker' = [dworker EXCEPT ![d] = 0]
            /\ dtimer' = [dtimer EXCEPT ![d] = 0]
            /\ ticket' = [ticket EXCEPT ![dtask[d]] = 0]
       ELSE /\ dpc' = [dpc EXCEPT ![d] = "sendBlocked"]
            /\ UNCHANGED <<Response, sent, dtask, dworker, dtimer, ticket>>
  /\ UNCHANGED <<outerVars, mgrVars, taskQueue, workerPool, cntVars, crashed, subVars,
                 workVars, invVars, enqueues, faults, admitted,
                 cancelledAfterHandoff, ctxWoke, decrements, abandoned>>

\* case <-time.After(1 * time.Second): the worker does not receive; the
\* blocking send task.Response <- "worker assignment timeout".
DispatcherAssignTimeout(d) ==
  /\ ~crashed
  /\ dpc[d] = "assign"
  /\ wpc[dworker[d]] # "waitTask"
  /\ IF ResponseHasRoom(dtask[d])
       THEN /\ Response' = [Response EXCEPT
                 ![dtask[d]] = Append(@, TaskResult(ErrAssignTimeout, dtask[d]))]
            /\ sent' = [sent EXCEPT ![dtask[d]] = @ + 1]
            /\ dpc' = [dpc EXCEPT ![d] = "decrement"]
       ELSE /\ dpc' = [dpc EXCEPT ![d] = "sendBlocked"]
            /\ UNCHANGED <<Response, sent>>
  /\ UNCHANGED <<outerVars, mgrVars, taskQueue, workerPool, cntVars, crashed, subVars,
                 dtask, dworker, dtimer, workVars, invVars, ordVars>>

\* Mutant: the dispatcher goes back to the top of its loop without the
\* decrement of queuedCount.
DispatcherDecrement_Skip(d) ==
  /\ ~crashed
  /\ dpc[d] = "decrement"
  /\ queuedCount' = queuedCount
  /\ dpc' = [dpc EXCEPT ![d] = "recv"]
  /\ dtask' = [dtask EXCEPT ![d] = 0]
  /\ dworker' = [dworker EXCEPT ![d] = 0]
  /\ dtimer' = [dtimer EXCEPT ![d] = 0]
  /\ ticket' = [ticket EXCEPT ![dtask[d]] = 0]
  /\ decrements' = [decrements EXCEPT ![dtask[d]] = @ + 1]
  /\ UNCHANGED <<outerVars, mgrVars, taskQueue, workerPool, totalRequests,
                 processedCount, failedCount, crashed, subVars, Response,
                 workVars, sent, invVars, enqueues, faults, admitted,
                 cancelledAfterHandoff, ctxWoke, abandoned>>

\* atomic.AddInt64(&qm.queuedCount, -1), the last statement of each of the
\* three outcomes, then back to the top of the loop.
DispatcherDecrement(d) ==
  /\ ~crashed
  /\ dpc[d] = "decrement"
  /\ queuedCount' = queuedCount - 1
  /\ dpc' = [dpc EXCEPT ![d] = "recv"]
  /\ dtask' = [dtask EXCEPT ![d] = 0]
  /\ dworker' = [dworker EXCEPT ![d] = 0]
  /\ dtimer' = [dtimer EXCEPT ![d] = 0]
  /\ ticket' = [ticket EXCEPT ![dtask[d]] = 0]
  /\ decrements' = [decrements EXCEPT ![dtask[d]] = @ + 1]
  /\ UNCHANGED <<outerVars, mgrVars, taskQueue, workerPool, totalRequests,
                 processedCount, failedCount, crashed, subVars, Response,
                 workVars, sent, invVars, enqueues, faults, admitted,
                 cancelledAfterHandoff, ctxWoke, abandoned>>

(* ------------------------------ Worker -------------------------------- *)

\* Worker.Start loop, outer select, case w.workerPool <- w.taskQueue: the
\* buffered send has completed and the slot is in workerPool; the
\* goroutine has not yet reached the inner select.
WorkerPublish(w) ==
  /\ ~crashed
  /\ wpc[w] = "register"
  /\ Len(workerPool) < MaxWorkers
  /\ workerPool' = Append(workerPool, w)
  /\ wpc' = [wpc EXCEPT ![w] = "published"]
  /\ UNCHANGED <<outerVars, mgrVars, taskQueue, cntVars, crashed, subVars, Response,
                 dispVars, wtask, sent, invVars, ordVars>>

\* Worker.Start loop: the goroutine reaches the inner select and waits on
\* w.taskQueue.  Until then a dispatcher that took the slot finds no
\* receiver on it.
WorkerWait(w) ==
  /\ ~crashed
  /\ wpc[w] = "published"
  /\ wpc' = [wpc EXCEPT ![w] = "waitTask"]
  /\ UNCHANGED <<outerVars, mgrVars, taskQueue, workerPool, cntVars, crashed, subVars,
                 Response, dispVars, wtask, sent, invVars, ordVars>>

\* Worker.Start loop, case <-w.quit of the outer or of the inner select:
\* return, and the deferred StoreInt32(&w.running, 0).
WorkerQuit(w) ==
  /\ ~crashed
  /\ wpc[w] \in {"register", "waitTask"}
  /\ quit[w]
  /\ wpc' = [wpc EXCEPT ![w] = "stopped"]
  /\ UNCHANGED <<outerVars, mgrVars, taskQueue, workerPool, cntVars, crashed, subVars,
                 Response, dispVars, wtask, sent, invVars, ordVars>>

\* Mutant: processTask has no deferred recover: a panic of the processor
\* ends the process.
WorkerProcessorReturns_NoRecover(w, outcome) ==
  /\ ~crashed
  /\ wpc[w] = "processing"
  /\ inProgress' = inProgress - 1
  /\ UNCHANGED executed
  /\ IF outcome = "ok"
       THEN UNCHANGED faults
       ELSE faults < MaxFaults /\ faults' = faults + 1
  /\ LET t == wtask[w]
     IN IF outcome = "panic"
          THEN /\ crashed' = TRUE
               /\ UNCHANGED <<Response, sent, wpc, wtask>>
          ELSE /\ UNCHANGED crashed
               /\ wpc' = [wpc EXCEPT ![w] = "register"]
               /\ wtask' = [wtask EXCEPT ![w] = 0]
               /\ IF ResponseHasRoom(t)
                    THEN /\ Response' = [Response EXCEPT
                                           ![t] = Append(@, TaskResult(outcome, t))]
                         /\ sent' = [sent EXCEPT ![t] = @ + 1]
                    ELSE UNCHANGED <<Response, sent>>
  /\ UNCHANGED <<outerVars, mgrVars, taskQueue, workerPool, cntVars, subVars,
                 dispVars, enqueues, ticket, admitted,
                 cancelledAfterHandoff, ctxWoke, decrements, abandoned>>

\* processTask from the return of w.processor.ProcessRequest on.  A normal
\* return goes to the final select: send the TaskResult, or give up after
\* one second when the Response buffer is occupied.  A panic goes to the
\* deferred recover and its blocking send of the internal error, which
\* blocks the worker when the buffer is occupied.  Then processTask returns
\* to the loop.
WorkerProcessorReturns(w, outcome) ==
  /\ ~crashed
  /\ wpc[w] = "processing"
  /\ inProgress' = inProgress - 1
  /\ UNCHANGED executed
  /\ IF outcome = "ok"
       THEN UNCHANGED faults
       ELSE faults < MaxFaults /\ faults' = faults + 1
  /\ LET t == wtask[w]
         result == IF outcome = "panic" THEN TaskResult(ErrInternal, t)
                                        ELSE TaskResult(outcome, t)
     IN IF ResponseHasRoom(t)
          THEN /\ Response' = [Response EXCEPT ![t] = Append(@, result)]
               /\ sent' = [sent EXCEPT ![t] = @ + 1]
               /\ wpc' = [wpc EXCEPT ![w] = "register"]
               /\ wtask' = [wtask EXCEPT ![w] = 0]
          ELSE /\ UNCHANGED <<Response, sent>>
               /\ IF outcome = "panic"
                    THEN /\ wpc' = [wpc EXCEPT ![w] = "recoverBlocked"]
                         /\ UNCHANGED wtask
                    ELSE /\ wpc' = [wpc EXCEPT ![w] = "register"]
                         /\ wtask' = [wtask EXCEPT ![w] = 0]
  /\ UNCHANGED <<outerVars, mgrVars, taskQueue, workerPool, cntVars, crashed, subVars,
                 dispVars, enqueues, ticket, admitted,
                 cancelledAfterHandoff, ctxWoke, decrements, abandoned>>

(* -------------------------- APIHandler.Chat --------------------------- *)

\* An error message is the sequence of its words and punctuation marks.
\* strings.Contains(msg, pat): pat occurs in msg as a contiguous part.
Contains(msg, pat) ==
  \E i \in 0..(Len(msg) - Len(pat)) :
    \A j \in 1..Len(pat) : msg[i + j] = pat[j]

\* How %v prints the durations a configuration may carry.
Durations == {"10s", "30s"}

\* The messages of the errors the queue package creates (fmt.Errorf).
MsgNotRunning == <<"queue", "manager", "is", "not", "running">>
MsgQueueFull(d) == <<"request", "queue", "is", "full", ",", "timeout", "after", d>>
MsgRequestTimeout(d) == <<"request", "timeout", "after", d>>
MsgNoWorkers(d) == <<"no", "available", "workers", ",", "timeout", "after", d>>
MsgAssignTimeout == <<"worker", "assignment", "timeout">>
MsgInternal == <<"internal", "error", "during", "task", "processing">>

\* ctx.Err().Error(): context.Canceled or context.DeadlineExceeded.
MsgCanceled == <<"context", "canceled">>
MsgDeadline == <<"context", "deadline", "exceeded">>

\* The words of the errors a processor may return, and those errors.
ProcessorWords == {"request", "timeout", "after", "processor", "error"}
ProcessorMessages ==
  UNION {[1..n -> ProcessorWords] : n \in 1..MaxErrLen}

\* Every error SubmitRequest can return to the handler.
ErrorMessages ==
  {MsgNotRunning, MsgAssignTimeout, MsgInternal, MsgCanceled, MsgDeadline}
    \cup {MsgQueueFull(d) : d \in Durations}
    \cup {MsgRequestTimeout(d) : d \in Durations}
    \cup {MsgNoWorkers(d) : d \in Durations}
    \cup ProcessorMessages

\* The if / else-if chain of Chat on errorMsg: the HTTP status and the
\* "code" of the first branch whose substring test succeeds.
ChatBranch(msg) ==
  IF Contains(msg, <<"request", "queue", "is", "full">>)
       \/ Contains(msg, <<"timeout", "after">>)
    THEN [status |-> 503, code |-> "QUEUE_TIMEOUT"]
  ELSE IF Contains(msg, <<"request", "timeout">>)
    THEN [status |-> 408, code |-> "REQUEST_TIMEOUT"]
  ELSE IF Contains(msg, MsgCanceled) \/ Contains(msg, MsgDeadline)
    THEN [status |-> 408, code |-> "CONTEXT_TIMEOUT"]
  ELSE IF Contains(msg, MsgNotRunning)
    THEN [status |-> 503, code |-> "SERVICE_UNAVAILABLE"]
  ELSE [status |-> 500, code |-> "INTERNAL_ERROR"]

\* h.queueManager.SubmitRequest returned an error to Chat.
ChatSubmitFailed(msg) ==
  /\ chatPc = "idle"
  /\ chatPc' = "failed"
  /\ chatErr' = msg
  /\ UNCHANGED <<chatStatus, chatCode>>
  /\ UNCHANGED <<clientVars, forecastVars, timeVars, mgrVars, taskQueue, workerPool, cntVars, crashed,
                 subVars, Response, dispVars, workVars, sent, invVars, ordVars>>

\* h.queueManager.SubmitRequest returned a response to Chat.
ChatSubmitOk ==
  /\ chatPc = "idle"
  /\ chatPc' = "ok"
  /\ UNCHANGED <<chatErr, chatStatus, chatCode>>
  /\ UNCHANGED <<clientVars, forecastVars, timeVars, mgrVars, taskQueue, workerPool, cntVars, crashed,
                 subVars, Response, dispVars, workVars, sent, invVars, ordVars>>

\* Chat writes its response: 200 with the response, or the status and
\* code chosen from the error message.
ChatRespond ==
  /\ chatPc \in {"failed", "ok"}
  /\ chatPc' = "done"
  /\ IF chatPc = "ok"
       THEN chatStatus' = 200 /\ chatCode' = ""
       ELSE /\ chatStatus' = ChatBranch(chatErr).status
            /\ chatCode' = ChatBranch(chatErr).code
  /\ UNCHANGED chatErr
  /\ UNCHANGED <<clientVars, forecastVars, timeVars, mgrVars, taskQueue, workerPool, cntVars, crashed,
                 subVars, Response, dispVars, workVars, sent, invVars, ordVars>>

(* ----------------------------- mcp.Client ---------------------------- *)

queueVars == <<mgrVars, taskQueue, workerPool, cntVars, crashed, subVars,
               Response, dispVars, workVars, sent, invVars, ordVars>>

\* getNextRequestID returning the counter without incrementing it.
getNextRequestID_NoIncrement == requestID

\* getNextRequestID.
getNextRequestID == requestID + 1

\* fmt.Sprintf("%v") of the number in the code field of an error object.
FormatCode(code) ==
  CASE code = -32000 -> "-32000"
    [] code = -32602 -> "-32602"
    [] code = -1 -> "-1"
    [] OTHER -> "0"

\* fmt.Sprintf("MCP server error: %v", rpcResponse.Error): the error object
\* was decoded into a map, which %v prints with its keys in order.
FormatServerError(frame) ==
  <<"MCP server error: map[code:", FormatCode(frame.code), " message:">>
    \o frame.text \o <<"]">>

\* toolType of parseResponse: weather when the text contains one of the
\* weather marks, else search when it contains one of the search marks,
\* else unknown.
toolType(text) ==
  IF \E m \in WeatherMarks : Contains(text, <<m>>) THEN "weather"
  ELSE IF \E m \in SearchMarks : Contains(text, <<m>>) THEN "search"
  ELSE "unknown"

\* parseResponse: an error object gives the "MCP server error" response
\* with Code -1, a frame without result the "No result in MCP response"
\* response, a result that is no object the "Invalid result format"
\* response; the text of content[0] is repacked as {content, type}, and a
\* result object without it is passed on.  The id of the frame is not
\* looked at.  from records the frame the response was decoded from.
parseResponse(frame) ==
  IF frame.kind = "error"
    THEN MCPResponse("MCP server error", frame.id, -1, FormatServerError(frame))
  ELSE IF frame.kind \notin {"result", "object", "scalar"}
    THEN MCPResponse("No result in MCP response", frame.id, -1,
                     <<"No result in MCP response">>)
  ELSE IF frame.kind = "scalar"
    THEN MCPResponse("Invalid result format", frame.id, -1,
                     <<"Invalid result format">>)
  ELSE IF frame.kind = "result"
    THEN MCPResponse(toolType(frame.text), frame.id, 0, frame.text)
  ELSE MCPResponse("raw", frame.id, 0, <<>>)

\* A caller invokes Client.Start and arrives at c.mutex.Lock().
ClientCallStart ==
  /\ cpc[StartCall] \in {"idle", "done"}
  /\ cstarts < MaxClientStarts
  /\ cstarts' = cstarts + 1
  /\ cpc' = [cpc EXCEPT ![StartCall] = "lock"]
  /\ cret' = [cret EXCEPT ![StartCall] = NoResponse]
  /\ UNCHANGED <<clientRunning, requestID, mutex, stdin, stdout, cid,
                 unsolicited, creq, cmd, alive, spawned, written, cstops, cctx,
                 apiVars,
                 forecastVars, timeVars, queueVars>>

\* Client.Start from the mutex to the return of cmd.Start: nil when
\* running already; else a new exec.Cmd replaces c.cmd, and either one of
\* StdinPipe, StdoutPipe and cmd.Start fails and Start returns its error,
\* leaving c.cmd without a process and pipes nobody uses before the next
\* Start replaces them, or the child runs on new pipes and Start goes to
\* sleep with the mutex held.
ClientStart(outcome) ==
  /\ cpc[StartCall] = "lock"
  /\ mutex = 0
  /\ IF clientRunning
       THEN /\ outcome = "spawned"
            /\ cpc' = [cpc EXCEPT ![StartCall] = "done"]
            /\ cret' = [cret EXCEPT ![StartCall] = MCPResponse("nil", 0, 0, <<>>)]
            /\ UNCHANGED <<mutex, stdin, stdout, cmd, alive, spawned>>
       ELSE IF outcome = "spawned"
         THEN /\ mutex' = StartCall
              /\ spawned' = spawned + 1
              /\ cmd' = spawned + 1
              /\ alive' = alive \cup {spawned + 1}
              /\ stdin' = <<>>
              /\ stdout' = <<>>
              /\ cpc' = [cpc EXCEPT ![StartCall] = "sleep"]
              /\ UNCHANGED cret
         ELSE /\ cmd' = 0
              /\ stdin' = <<>>
              /\ stdout' = <<>>
              /\ cpc' = [cpc EXCEPT ![StartCall] = "done"]
              /\ cret' = [cret EXCEPT ![StartCall] = MCPResponse(outcome, 0, 0, <<>>)]
              /\ UNCHANGED <<mutex, alive, spawned>>
  /\ UNCHANGED <<clientRunning, requestID, cid, written, unsolicited, creq,
                 cstarts, cstops, cctx, apiVars,
                 forecastVars, timeVars, queueVars>>

\* Client.Start after time.Sleep(500 * time.Millisecond), in initialize:
\* the id is taken and the initialize request written.  The write fails
\* when the child has ended meanwhile: initialize returns the error and
\* Start returns with running still false.
initialize ==
  /\ cpc[StartCall] = "sleep"
  /\ requestID' = getNextRequestID
  /\ cid' = [cid EXCEPT ![StartCall] = getNextRequestID]
  /\ IF cmd \in alive
       THEN /\ stdin' = Append(stdin, Frame(getNextRequestID, "initialize"))
            /\ written' = Append(written, getNextRequestID)
            /\ cpc' = [cpc EXCEPT ![StartCall] = "read"]
            /\ UNCHANGED <<mutex, cret>>
       ELSE /\ cret' = [cret EXCEPT ![StartCall] =
                 MCPResponse("failed to initialize MCP connection", 0, 0, <<>>)]
            /\ cpc' = [cpc EXCEPT ![StartCall] = "done"]
            /\ mutex' = 0
            /\ UNCHANGED <<stdin, written>>
  /\ UNCHANGED <<clientRunning, stdout, unsolicited, creq, cmd, alive, spawned,
                 cstarts, cstops, cctx, apiVars,
                 forecastVars, timeVars, queueVars>>

\* Client.Start from readResponse on: the next line of the child is taken
\* as the answer to initialize, running is set and the mutex released.
\* When the line does not decode, or the child has ended and left no line,
\* initialize fails: Start returns the error and running stays false.
ClientStartRead ==
  /\ cpc[StartCall] = "read"
  /\ \/ /\ stdout # <<>>
        /\ stdout' = Tail(stdout)
        /\ IF Head(stdout).kind = "garbage"
             THEN /\ cret' = [cret EXCEPT ![StartCall] =
                       MCPResponse("failed to initialize MCP connection", 0, 0, <<>>)]
                  /\ UNCHANGED clientRunning
             ELSE /\ cret' = [cret EXCEPT ![StartCall] =
                       MCPResponse("nil", Head(stdout).id, 0, <<>>)]
                  /\ clientRunning' = TRUE
     \/ /\ stdout = <<>>
        /\ cmd \notin alive
        /\ cret' = [cret EXCEPT ![StartCall] =
                       MCPResponse("failed to initialize MCP connection", 0, 0, <<>>)]
        /\ UNCHANGED <<stdout, clientRunning>>
  /\ mutex' = 0
  /\ cpc' = [cpc EXCEPT ![StartCall] = "done"]
  /\ UNCHANGED <<requestID, stdin, cid, unsolicited, creq, cmd, alive,
                 spawned, written, cstarts, cstops, cctx, apiVars,
                 forecastVars, timeVars, queueVars>>

\* A caller invokes Client.Stop and arrives at c.mutex.Lock().
ClientCallStop ==
  /\ cpc[StopCall] \in {"idle", "done"}
  /\ cstops < MaxClientStops
  /\ cstops' = cstops + 1
  /\ cpc' = [cpc EXCEPT ![StopCall] = "lock"]
  /\ cret' = [cret EXCEPT ![StopCall] = NoResponse]
  /\ UNCHANGED <<clientRunning, requestID, mutex, stdin, stdout, cid,
                 unsolicited, creq, cmd, alive, spawned, written, cstarts, cctx,
                 apiVars,
                 forecastVars, timeVars, queueVars>>

\* Client.Stop once it has the mutex: nothing when not running, else the
\* pipes are closed, the child is killed and reaped, and running is reset.
ClientStop ==
  /\ cpc[StopCall] = "lock"
  /\ mutex = 0
  /\ IF ~clientRunning
       THEN /\ cret' = [cret EXCEPT ![StopCall] = MCPResponse("nil", 0, 0, <<>>)]
            /\ UNCHANGED <<clientRunning, stdin, stdout, alive>>
       ELSE /\ stdin' = <<>>
            /\ stdout' = <<>>
            /\ alive' = alive \ {cmd}
            /\ clientRunning' = FALSE
            /\ cret' = [cret EXCEPT ![StopCall] = MCPResponse("stopped", 0, 0, <<>>)]
  /\ cpc' = [cpc EXCEPT ![StopCall] = "done"]
  /\ UNCHANGED <<requestID, mutex, cid, unsolicited, creq, cmd, spawned,
                 written, cstarts, cstops, cctx, apiVars,
                 forecastVars, timeVars, queueVars>>

\* A caller invokes Client.ProcessRequest with req and arrives at
\* c.mutex.Lock().
ClientCall(c, req) ==
  /\ cpc[c] = "idle"
  /\ IF c = 1 THEN TRUE ELSE cpc[c - 1] # "idle"
  /\ cpc' = [cpc EXCEPT ![c] = "lock"]
  /\ creq' = [creq EXCEPT ![c] = req]
  /\ UNCHANGED <<clientRunning, requestID, mutex, stdin, stdout, cid, cret,
                 unsolicited, cmd, alive, spawned, written, cstarts, cstops,
                 cctx, apiVars,
                 forecastVars, timeVars, queueVars>>

\* The caller of ProcessRequest cancels the ctx it passed.  ProcessRequest
\* does not read ctx.
ClientCancel(c) ==
  /\ cpc[c] \in {"lock", "read"}
  /\ c \notin cctx
  /\ Cardinality(cctx) < MaxClientCancels
  /\ cctx' = cctx \cup {c}
  /\ UNCHANGED <<clientRunning, requestID, mutex, stdin, stdout, cpc, cid,
                 cret, unsolicited, creq, cmd, alive, spawned, written,
                 cstarts, cstops, apiVars,
                 forecastVars, timeVars, queueVars>>

\* A return of ProcessRequest that takes a request id on the way.
ClientReturnEarly_AllocId(c, resp) ==
  /\ cpc' = [cpc EXCEPT ![c] = "done"]
  /\ cret' = [cret EXCEPT ![c] = resp]
  /\ requestID' = requestID + 1
  /\ UNCHANGED <<mutex, stdin, cid, written>>

\* A return of ProcessRequest before any id is allocated: the deferred
\* Unlock releases the mutex the call took in the same step.
ClientReturnEarly(c, resp) ==
  /\ cpc' = [cpc EXCEPT ![c] = "done"]
  /\ cret' = [cret EXCEPT ![c] = resp]
  /\ UNCHANGED <<mutex, requestID, stdin, cid, written>>

\* Client.ProcessRequest up to the blocking read: take the mutex, fail when
\* not running, then switch on the method.  A tool method allocates the id
\* and writes the tools/call frame; direct_response answers from the
\* parameters; any other method is not found.
ClientProcessRequest(c) ==
  /\ cpc[c] = "lock"
  /\ mutex = 0
  /\ LET req == creq[c]
     IN IF ~clientRunning
          THEN ClientReturnEarly(c,
                 MCPResponse("MCP client is not running", 0, 0, <<>>))
        ELSE IF req.method \in ToolMethods
          THEN IF ~req.params.isMap
                 THEN ClientReturnEarly(c,
                        MCPResponse("error", 0, -32602, <<"Invalid params format">>))
               ELSE IF cmd \in alive
                 THEN /\ mutex' = c
                      /\ requestID' = getNextRequestID
                      /\ cid' = [cid EXCEPT ![c] = getNextRequestID]
                      /\ stdin' = Append(stdin, Frame(getNextRequestID, "tools/call"))
                      /\ written' = Append(written, getNextRequestID)
                      /\ cpc' = [cpc EXCEPT ![c] = "read"]
                      /\ UNCHANGED cret
               ELSE /\ requestID' = getNextRequestID
                    /\ cid' = [cid EXCEPT ![c] = getNextRequestID]
                    /\ cpc' = [cpc EXCEPT ![c] = "done"]
                    /\ cret' = [cret EXCEPT ![c] =
                         MCPResponse("failed to send MCP message",
                                     getNextRequestID, 0, <<>>)]
                    /\ UNCHANGED <<mutex, stdin, written>>
        ELSE IF req.method = "direct_response"
          THEN IF ~req.params.isMap
                 THEN ClientReturnEarly(c,
                        MCPResponse("error", 0, -32602, <<"Invalid params format">>))
               ELSE IF ~req.params.hasResponse
                 THEN ClientReturnEarly(c,
                        MCPResponse("error", 0, -32602,
                                    <<"Missing response parameter">>))
               ELSE ClientReturnEarly(c,
                      MCPResponse("direct", 0, 0, req.params.response))
        ELSE ClientReturnEarly(c,
               MCPResponse("error", 0, -32601,
                           <<"Method not found: ", req.method>>))
  /\ UNCHANGED <<clientRunning, stdout, unsolicited, creq, cmd, alive,
                 spawned, cstarts, cstops, cctx, apiVars,
                 forecastVars, timeVars, queueVars>>

\* Client.ProcessRequest from readResponse on: scanner.Scan takes the next
\* line of the child, parseResponse turns it into the MCPResponse that is
\* returned, and the deferred Unlock releases the mutex.  A line that does
\* not decode, or the end of the stream, is the read error.
ClientReadResponse(c) ==
  /\ cpc[c] = "read"
  /\ \/ /\ stdout # <<>>
        /\ stdout' = Tail(stdout)
        /\ cret' = [cret EXCEPT ![c] =
             IF Head(stdout).kind = "garbage"
               THEN MCPResponse("failed to read MCP response", 0, 0, <<>>)
               ELSE parseResponse(Head(stdout))]
     \/ /\ stdout = <<>>
        /\ cmd \notin alive
        /\ cret' = [cret EXCEPT ![c] =
             MCPResponse("failed to read MCP response", 0, 0, <<>>)]
        /\ UNCHANGED stdout
  /\ mutex' = 0
  /\ cpc' = [cpc EXCEPT ![c] = "done"]
  /\ UNCHANGED <<clientRunning, requestID, stdin, cid, unsolicited, creq, cmd,
                 alive, spawned, written, cstarts, cstops, cctx, apiVars,
                 forecastVars, timeVars, queueVars>>

\* The child reads a request line and writes the response with the same
\* id, carrying the result.
ServerRespond(result) ==
  /\ cmd \in alive
  /\ stdin # <<>>
  /\ stdin' = Tail(stdin)
  /\ stdout' = Append(stdout, ResultFrame(Head(stdin).id, result.kind, result.text))
  /\ UNCHANGED <<clientRunning, requestID, mutex, cpc, cid, cret, unsolicited,
                 creq, cmd, alive, spawned, written, cstarts, cstops, cctx,
                 apiVars,
                 forecastVars, timeVars, queueVars>>

\* The child reads a request line and writes the response with the same
\* id, carrying the error object {code, message}.
ServerRespondError(code, text) ==
  /\ cmd \in alive
  /\ stdin # <<>>
  /\ stdin' = Tail(stdin)
  /\ stdout' = Append(stdout, ErrorFrame(Head(stdin).id, code, text))
  /\ UNCHANGED <<clientRunning, requestID, mutex, cpc, cid, cret, unsolicited,
                 creq, cmd, alive, spawned, written, cstarts, cstops, cctx,
                 apiVars,
                 forecastVars, timeVars, queueVars>>

\* The child writes a line that answers no request: a notification, which
\* has no id (json.Unmarshal leaves ID 0), no result and no error.
ServerNotify ==
  /\ cmd \in alive
  /\ unsolicited < MaxUnsolicited
  /\ unsolicited' = unsolicited + 1
  /\ stdout' = Append(stdout, Frame(0, "notification"))
  /\ UNCHANGED <<clientRunning, requestID, mutex, stdin, cpc, cid, cret,
                 creq, cmd, alive, spawned, written, cstarts, cstops, cctx,
                 apiVars,
                 forecastVars, timeVars, queueVars>>

\* The child writes a line that json.Unmarshal rejects.
ServerGarbage ==
  /\ cmd \in alive
  /\ unsolicited < MaxUnsolicited
  /\ unsolicited' = unsolicited + 1
  /\ stdout' = Append(stdout, Frame(0, "garbage"))
  /\ UNCHANGED <<clientRunning, requestID, mutex, stdin, cpc, cid, cret,
                 creq, cmd, alive, spawned, written, cstarts, cstops, cctx,
                 apiVars,
                 forecastVars, timeVars, queueVars>>

\* The child process ends on its own: what it wrote can still be read, then
\* the stream is at its end.
ServerExit ==
  /\ cmd \in alive
  /\ alive' = alive \ {cmd}
  /\ UNCHANGED <<clientRunning, requestID, mutex, stdin, stdout, cpc, cid,
                 cret, unsolicited, creq, cmd, spawned, written, cstarts,
                 cstops, cctx, apiVars,
                 forecastVars, timeVars, queueVars>>

(* ------------------------ weather forecast --------------------------- *)

\* The handlers that serve get_weather_forecast.
ForecastHandlers == {"MCPClient", "server", "WeatherMCPServer"}

\* int(daysFloat): the conversion of a float64 to int drops the fraction.
IntOfTenths(t) == IF t >= 0 THEN t \div 10 ELSE -((-t) \div 10)

\* request.GetInt("days", 1): the default when the argument is absent, the
\* converted number when it is one, and otherwise whatever int the library
\* makes of the value.
GetInt(arg) ==
  IF ~arg.present THEN {1}
  ELSE IF arg.number THEN {IntOfTenths(arg.tenths)}
  ELSE DayInts

\* A get_weather_forecast request with a city and the days argument arg
\* arrives at one of the handlers.
ForecastRequest(h, arg) ==
  /\ fpc = "idle"
  /\ fpc' = "handler"
  /\ fpath' = h
  /\ farg' = arg
  /\ UNCHANGED <<fdays, fcnt, apiVars, clientVars, timeVars, queueVars>>

\* MCPClient.handleGetWeatherForecastRequest: days is 1 unless the argument
\* is a float64; a value outside 1..5 is answered with the -32602 error,
\* any other is passed to GetForecast.
HandleMCPClient ==
  /\ fpc = "handler" /\ fpath = "MCPClient"
  /\ LET days == IF farg.present /\ farg.number
                   THEN IntOfTenths(farg.tenths) ELSE 1
     IN IF days <= 0 \/ days > 5
          THEN fpc' = "rejected" /\ UNCHANGED fdays
          ELSE fpc' = "getForecast" /\ fdays' = days
  /\ UNCHANGED <<fpath, farg, fcnt, apiVars, clientVars, timeVars, queueVars>>

\* handleGetWeatherForecast of the tool server: a value outside 1..5 is
\* replaced by 1.
HandleServer ==
  /\ fpc = "handler" /\ fpath = "server"
  /\ \E days \in GetInt(farg) :
       fdays' = IF days <= 0 \/ days > 5 THEN 1 ELSE days
  /\ fpc' = "getForecast"
  /\ UNCHANGED <<fpath, farg, fcnt, apiVars, clientVars, timeVars, queueVars>>

\* WeatherMCPServer.handleGetWeatherForecast: a value below 1 is replaced
\* by 1.
HandleWeatherMCPServer ==
  /\ fpc = "handler" /\ fpath = "WeatherMCPServer"
  /\ \E days \in GetInt(farg) :
       fdays' = IF days <= 0 THEN 1 ELSE days
  /\ fpc' = "getForecast"
  /\ UNCHANGED <<fpath, farg, fcnt, apiVars, clientVars, timeVars, queueVars>>

\* A caller other than the handlers calls WeatherClient.GetForecast with a
\* city and days.
ForecastDirect(days) ==
  /\ fpc = "idle"
  /\ fpc' = "getForecast"
  /\ fpath' = "GetForecast"
  /\ fdays' = days
  /\ UNCHANGED <<farg, fcnt, apiVars, clientVars, timeVars, queueVars>>

\* WeatherClient.GetForecast without the limit on days.
GetForecast_NoLimit ==
  /\ fpc = "getForecast"
  /\ fcnt' = fdays * 8
  /\ fpc' = "queried"
  /\ UNCHANGED <<fpath, farg, fdays, apiVars, clientVars, timeVars, queueVars>>

\* WeatherClient.GetForecast for a city that is not empty: days outside
\* 1..5 becomes 1, and the provider is queried with cnt = days*8.
GetForecast ==
  /\ fpc = "getForecast"
  /\ LET days == IF fdays <= 0 \/ fdays > 5 THEN 1 ELSE fdays
     IN fcnt' = days * 8
  /\ fpc' = "queried"
  /\ UNCHANGED <<fpath, farg, fdays, apiVars, clientVars, timeVars, queueVars>>

(* --------------------------- specification ---------------------------- *)

(* ---------------------- one request on a clock ----------------------- *)

\* NewQueueManager: config.RequestTimeout <= 0 becomes the default.
NewRequestTimeout(cfg) == IF cfg <= 0 THEN DefaultRequestTimeout ELSE cfg

\* A manager built with RequestTimeout cfg is started and SubmitRequest
\* has put the task into taskQueue: it enters its second select, and
\* time.After(qm.config.RequestTimeout) is armed.  The clock starts here.
TimedSubmit(cfg) ==
  /\ tpc = "idle"
  /\ RequestTimeout' = NewRequestTimeout(cfg)
  /\ tpc' = "wait"
  /\ twpc' = "queued"
  /\ now' = 0
  /\ UNCHANGED <<tctx, tresp, tret, tat, apiVars, clientVars, forecastVars,
                 queueVars>>

\* A second passes.
Tick ==
  /\ tpc = "wait"
  /\ now < MaxClock
  /\ now' = now + 1
  /\ UNCHANGED <<RequestTimeout, tpc, twpc, tctx, tresp, tret, tat, apiVars,
                 clientVars, forecastVars, queueVars>>

\* processTask: the worker has received the task, after whatever time it
\* spent in the queue, and derives ctx with context.WithTimeout(
\* task.Context, 30*time.Second) before it calls the processor.
TimedProcessTask ==
  /\ twpc = "queued"
  /\ twpc' = "process"
  /\ tctx' = now
  /\ UNCHANGED <<RequestTimeout, now, tpc, tresp, tret, tat, apiVars,
                 clientVars, forecastVars, queueVars>>

\* The processor returns a response and the worker sends it on Response.
TimedProcessorReturns ==
  /\ twpc = "process"
  /\ twpc' = "sent"
  /\ tresp' = "ok"
  /\ UNCHANGED <<RequestTimeout, now, tpc, tctx, tret, tat, apiVars,
                 clientVars, forecastVars, queueVars>>

\* The deadline of ctx has passed: the processor, which honours ctx,
\* returns ctx.Err() and the worker sends it on Response as the error.
TimedProcessorDeadline ==
  /\ twpc = "process"
  /\ now >= tctx + WorkerTimeout
  /\ twpc' = "sent"
  /\ tresp' = ErrDeadlineExceeded
  /\ UNCHANGED <<RequestTimeout, now, tpc, tctx, tret, tat, apiVars,
                 clientVars, forecastVars, queueVars>>

\* SubmitRequest, case result := <-task.Response.
TimedReceive ==
  /\ tpc = "wait"
  /\ twpc = "sent"
  /\ tpc' = "returned"
  /\ twpc' = "received"
  /\ tret' = tresp
  /\ tat' = now
  /\ UNCHANGED <<RequestTimeout, now, tctx, tresp, apiVars, clientVars,
                 forecastVars, queueVars>>

\* SubmitRequest, case <-time.After(qm.config.RequestTimeout).
TimedRequestTimeout ==
  /\ tpc = "wait"
  /\ now >= RequestTimeout
  /\ tpc' = "returned"
  /\ tret' = ErrRequestTimeout
  /\ tat' = now
  /\ UNCHANGED <<RequestTimeout, now, twpc, tctx, tresp, apiVars, clientVars,
                 forecastVars, queueVars>>

Next ==
  \/ Start
  \/ StartAlreadyRunning
  \/ Stop
  \/ StopNotRunning
  \/ \E c \in Calls : SubmitRequest(c)
  \/ \E c \in Calls : SubmitEnqueue(c)
  \/ \E c \in Calls : SubmitQueueTimeout(c)
  \/ \E c \in Calls : SubmitEnqueueCancelled(c)
  \/ \E c \in Calls : SubmitCountQueued(c)
  \/ \E c \in Calls : SubmitReceive(c)
  \/ \E c \in Calls : SubmitRequestTimeout(c)
  \/ \E c \in Calls : SubmitWaitCancelled(c)
  \/ \E c \in Calls : CancelContext(c)
  \/ \E d \in Dispatchers : DispatcherReceive(d)
  \/ \E d \in Dispatchers : DispatcherGetWorker(d)
  \/ \E d \in Dispatchers : DispatcherNoWorker(d)
  \/ \E d \in Dispatchers : DispatcherAssign(d)
  \/ \E d \in Dispatchers : DispatcherAssignTimeout(d)
  \/ \E d \in Dispatchers : DispatcherDecrement(d)
  \/ \E w \in Workers : WorkerPublish(w)
  \/ \E w \in Workers : WorkerWait(w)
  \/ \E w \in Workers : WorkerQuit(w)
  \/ \E w \in Workers, o \in ProcessorOutcomes : WorkerProcessorReturns(w, o)

Spec == Init /\ [][Next]_vars

\* The manager between Start and Stop: Stop is never called, so no quit
\* channel is closed (WorkerQuit).
NextRunning ==
  \/ Start
  \/ \E c \in Calls : SubmitRequest(c)
  \/ \E c \in Calls : SubmitEnqueue(c)
  \/ \E c \in Calls : SubmitQueueTimeout(c)
  \/ \E c \in Calls : SubmitEnqueueCancelled(c)
  \/ \E c \in Calls : SubmitCountQueued(c)
  \/ \E c \in Calls : SubmitReceive(c)
  \/ \E c \in Calls : SubmitRequestTimeout(c)
  \/ \E c \in Calls : SubmitWaitCancelled(c)
  \/ \E c \in Calls : CancelContext(c)
  \/ \E d \in Dispatchers : DispatcherReceive(d)
  \/ \E d \in Dispatchers : DispatcherGetWorker(d)
  \/ \E d \in Dispatchers : DispatcherNoWorker(d)
  \/ \E d \in Dispatchers : DispatcherAssign(d)
  \/ \E d \in Dispatchers : DispatcherAssignTimeout(d)
  \/ \E d \in Dispatchers : DispatcherDecrement(d)
  \/ \E w \in Workers : WorkerPublish(w)
  \/ \E w \in Workers : WorkerWait(w)
  \/ \E w \in Workers, o \in ProcessorOutcomes : WorkerProcessorReturns(w, o)

\* The goroutine of a SubmitRequest call is scheduled: a select whose
\* ctx.Done case is ready proceeds, and so does the AddInt64 between the
\* two selects.  Nothing is assumed of the timers, the dispatcher, the
\* workers or the processor.
SubmitterFairness ==
  \A c \in Calls :
    /\ WF_vars(SubmitEnqueueCancelled(c))
    /\ WF_vars(SubmitCountQueued(c))
    /\ WF_vars(SubmitWaitCancelled(c))

SpecRunning == Init /\ [][NextRunning]_vars /\ SubmitterFairness

\* Every goroutine of the manager is scheduled and every timer fires: each
\* select of a SubmitRequest call, of the dispatcher and of a worker's loop
\* proceeds when a case of it stays ready.  Nothing is assumed of the
\* processor: an invocation of ProcessRequest need not return.
SchedulingFairness ==
  /\ \A c \in Calls :
       /\ WF_vars(SubmitEnqueue(c))
       /\ WF_vars(SubmitQueueTimeout(c))
       /\ WF_vars(SubmitEnqueueCancelled(c))
       /\ WF_vars(SubmitCountQueued(c))
       /\ WF_vars(SubmitReceive(c))
       /\ WF_vars(SubmitRequestTimeout(c))
       /\ WF_vars(SubmitWaitCancelled(c))
  /\ \A d \in Dispatchers :
       /\ WF_vars(DispatcherReceive(d))
       /\ WF_vars(DispatcherGetWorker(d))
       /\ WF_vars(DispatcherNoWorker(d))
       /\ WF_vars(DispatcherAssign(d))
       /\ WF_vars(DispatcherDecrement(d))
  /\ \A w \in Workers : WF_vars(WorkerPublish(w))
  /\ \A w \in Workers : WF_vars(WorkerWait(w))

SpecFair == Init /\ [][NextRunning]_vars /\ SchedulingFairness

\* The overflow scenario: MaxWorkers workers, QueueSize 2, a processor that
\* takes longer than QueueTimeout, and BurstCalls SubmitRequest calls made
\* at once on the started manager.
BurstCallSet == 1..BurstCalls

InitBurst ==
  /\ queueSize = BurstQueueSize
  /\ running = 0
  /\ taskQueue = <<>>
  /\ taskQueueClosed = FALSE
  /\ workerPool = <<>>
  /\ totalRequests = 0
  /\ processedCount = 0
  /\ failedCount = 0
  /\ queuedCount = 0
  /\ starts = 0
  /\ crashed = FALSE
  /\ spc = [c \in BurstCallSet |-> "idle"]
  /\ cancelled = [c \in BurstCallSet |-> FALSE]
  /\ ret = [c \in BurstCallSet |-> NoResult]
  /\ Response = [c \in BurstCallSet |-> <<>>]
  /\ dpc = [d \in Dispatchers |-> "none"]
  /\ dtask = [d \in Dispatchers |-> 0]
  /\ dworker = [d \in Dispatchers |-> 0]
  /\ dtimer = [d \in Dispatchers |-> 0]
  /\ wpc = [w \in Workers |-> "stopped"]
  /\ wtask = [w \in Workers |-> 0]
  /\ quit = [w \in Workers |-> FALSE]
  /\ sent = [c \in BurstCallSet |-> 0]
  /\ executed = [c \in BurstCallSet |-> 0]
  /\ faults = 0
  /\ inProgress = 0
  /\ admitted = {}
  /\ cancelledAfterHandoff = {}
  /\ ctxWoke = {}
  /\ decrements = [c \in BurstCallSet |-> 0]
  /\ abandoned = {}
  /\ enqueues = 0
  /\ ticket = [c \in BurstCallSet |-> 0]
  /\ stopReturned = FALSE
  /\ queuedAtStop = {}
  /\ lifecycle = "none"
  /\ chatPc = "idle"
  /\ chatErr = <<>>
  /\ chatStatus = 0
  /\ chatCode = ""
  /\ clientRunning = FALSE
  /\ requestID = 0
  /\ mutex = 0
  /\ stdin = <<>>
  /\ stdout = <<>>
  /\ cpc = [c \in ClientCallers |-> "idle"]
  /\ cid = [c \in ClientCallers |-> 0]
  /\ cret = [c \in ClientCallers |-> NoResponse]
  /\ unsolicited = 0
  /\ creq = [c \in ClientCalls |-> NoRequest]
  /\ cmd = 0
  /\ alive = {}
  /\ spawned = 0
  /\ written = <<>>
  /\ cstarts = 0
  /\ cstops = 0
  /\ cctx = {}
  /\ fpc = "idle"
  /\ fpath = "none"
  /\ farg = NoDaysArg
  /\ fdays = 0
  /\ fcnt = 0
  /\ RequestTimeout = 0
  /\ now = 0
  /\ tpc = "idle"
  /\ twpc = "idle"
  /\ tctx = 0
  /\ tresp = "none"
  /\ tret = "none"
  /\ tat = 0

\* The calls are concurrent: every one of them has begun before the first
\* timer expires.
BurstAllBegun == \A c \in BurstCallSet : spc[c] # "idle"

\* No SubmitRequest call still waits in its first select.
BurstEnqueuePhaseOver == \A c \in BurstCallSet : spc[c] \notin {"idle", "enqueue"}

\* time.After(QueueTimeout) of a submitter: timers of one duration expire
\* in the order they were armed.  The timers of the calls that began
\* earlier have expired or were dropped, and a dispatcher that waits for a
\* worker armed its timer after this call began.
BurstSubmitQueueTimeout(c) ==
  /\ BurstAllBegun
  /\ \A b \in BurstCallSet : b < c => spc[b] # "enqueue"
  /\ \A d \in Dispatchers : dpc[d] = "getWorker" => c <= dtimer[d]
  /\ SubmitQueueTimeout(c)

\* time.After(QueueTimeout) of the dispatcher: every call that began before
\* the dispatcher armed its timer has left its first select.
BurstDispatcherNoWorker(d) ==
  /\ BurstAllBegun
  /\ \A c \in BurstCallSet : c <= dtimer[d] => spc[c] # "enqueue"
  /\ DispatcherNoWorker(d)

\* The calls are made on the started manager.
BurstSubmitRequest(c) ==
  /\ running = 1
  /\ SubmitRequest(c)

\* The scenario runs until the last submitter has left its first select.
\* The processor's delay and RequestTimeout are longer than QueueTimeout:
\* until then no invocation of the processor returns and no
\* time.After(RequestTimeout) expires.  Nor does the dispatcher's hand-off
\* timer: it runs for one second, and every submitter has left its first
\* select after QueueTimeout, half a second in the scenario.
NextBurst ==
  \/ Start
  \/ \E c \in BurstCallSet : BurstSubmitRequest(c)
  \/ \E c \in BurstCallSet : SubmitEnqueue(c)
  \/ \E c \in BurstCallSet : BurstSubmitQueueTimeout(c)
  \/ \E c \in BurstCallSet : SubmitCountQueued(c)
  \/ \E c \in BurstCallSet : SubmitReceive(c)
  \/ \E d \in Dispatchers : DispatcherReceive(d)
  \/ \E d \in Dispatchers : DispatcherGetWorker(d)
  \/ \E d \in Dispatchers : BurstDispatcherNoWorker(d)
  \/ \E d \in Dispatchers : DispatcherAssign(d)
  \/ \E d \in Dispatchers : DispatcherDecrement(d)
  \/ \E w \in Workers : WorkerPublish(w)
  \/ \E w \in Workers : WorkerWait(w)

SpecBurst == InitBurst /\ [][NextBurst]_vars

\* One request through the Chat handler, for every error SubmitRequest can
\* return to it.
NextChat ==
  \/ \E msg \in ErrorMessages : ChatSubmitFailed(msg)
  \/ ChatSubmitOk
  \/ ChatRespond

SpecChat == Init /\ [][NextChat]_vars

\* The tool client, its callers and its child process.
NextClient ==
  \/ ClientCallStart
  \/ \E o \in StartOutcomes : ClientStart(o)
  \/ initialize
  \/ ClientStartRead
  \/ ClientCallStop
  \/ ClientStop
  \/ \E c \in ClientCalls : \E req \in ConcurrentRequests : ClientCall(c, req)
  \/ \E c \in ClientCalls : ClientProcessRequest(c)
  \/ \E c \in ClientCalls : ClientReadResponse(c)
  \/ ServerRespond(WeatherResult)
  \/ ServerNotify
  \/ ServerGarbage
  \/ ServerExit

SpecClient == Init /\ [][NextClient]_vars

\* The tool client serving every kind of request, one child that answers
\* each request with a result or an error object.
NextRequests ==
  \/ ClientCallStart
  \/ \E o \in StartOutcomes : ClientStart(o)
  \/ initialize
  \/ ClientStartRead
  \/ \E c \in ClientCalls : \E req \in ClientRequests : ClientCall(c, req)
  \/ \E c \in ClientCalls : ClientProcessRequest(c)
  \/ \E c \in ClientCalls : ClientReadResponse(c)
  \/ \E r \in ServerResults : ServerRespond(r)
  \/ \E code \in ServerCodes : \E text \in ServerTexts :
       ServerRespondError(code, text)

SpecRequests == Init /\ [][NextRequests]_vars

\* The tool client with callers that cancel their ctx and a child that
\* answers when it chooses to.
NextWait ==
  \/ ClientCallStart
  \/ \E o \in StartOutcomes : ClientStart(o)
  \/ initialize
  \/ ClientStartRead
  \/ ClientCallStop
  \/ ClientStop
  \/ \E c \in ClientCalls : ClientCall(c, MCPRequest("get_weather", TRUE, FALSE, <<>>))
  \/ \E c \in ClientCalls : ClientCancel(c)
  \/ \E c \in ClientCalls : ClientProcessRequest(c)
  \/ \E c \in ClientCalls : ClientReadResponse(c)
  \/ ServerRespond(WeatherResult)

\* The Go scheduler runs every goroutine that can take a step: a call that
\* can take the mutex takes it, a call whose line has arrived reads it.
\* Nothing makes the child write.
ClientFairness ==
  /\ WF_vars(\E o \in StartOutcomes : ClientStart(o))
  /\ WF_vars(initialize)
  /\ WF_vars(ClientStartRead)
  /\ WF_vars(ClientStop)
  /\ \A c \in ClientCalls : WF_vars(ClientProcessRequest(c))
  /\ \A c \in ClientCalls : WF_vars(ClientReadResponse(c))

SpecWait == Init /\ [][NextWait]_vars /\ ClientFairness

\* One forecast request, by each way that leads to the weather provider.
NextForecast ==
  \/ \E h \in ForecastHandlers : \E arg \in DaysArgs : ForecastRequest(h, arg)
  \/ \E days \in DayInts : ForecastDirect(days)
  \/ HandleMCPClient
  \/ HandleServer
  \/ HandleWeatherMCPServer
  \/ GetForecast

SpecForecast == Init /\ [][NextForecast]_vars

\* One request against a manager of each configured RequestTimeout, with
\* the time that passes between its steps.
NextDeadline ==
  \/ \E cfg \in ConfiguredTimeouts : TimedSubmit(cfg)
  \/ Tick
  \/ TimedProcessTask
  \/ TimedProcessorReturns
  \/ TimedProcessorDeadline
  \/ TimedReceive
  \/ TimedRequestTimeout

SpecDeadline == Init /\ [][NextDeadline]_vars

(* ------------------------------ claims -------------------------------- *)

\* C1: in every reachable state the number of ProcessRequest invocations
\* in progress is at most MaxWorkers.
C1_BoundedConcurrency == inProgress <= MaxWorkers

\* C1 witness: every worker is inside ProcessRequest while another admitted
\* task is still waiting in the queue.
C1_Witness ==
  /\ inProgress = MaxWorkers
  /\ \A w \in Workers : wpc[w] = "processing"
  /\ taskQueue # <<>>

\* The task is still on its way: in the queue, held by a dispatcher that
\* has not disposed of it, or inside a worker's ProcessRequest call.
Pending(c) ==
  \/ c \in Range(taskQueue)
  \/ \E d \in Dispatchers : dtask[d] = c /\ dpc[d] \in {"getWorker", "assign"}
  \/ \E w \in Workers : wtask[w] = c /\ wpc[w] = "processing"

\* The TaskResult produced for the task: still in the Response buffer, or
\* read by SubmitRequest and returned.
Produced(c) == IF Response[c] # <<>> THEN Head(Response[c]) ELSE ret[c]

\* C2: at most one TaskResult is ever sent on a task's Response channel, a
\* task that never entered the queue gets none, and once an admitted task
\* has left the queue, the dispatcher and the worker, exactly one was sent.
C2_ExactlyOneResult ==
  \A c \in Calls :
    /\ sent[c] <= 1
    /\ c \notin admitted => sent[c] = 0
    /\ (c \in admitted /\ ~Pending(c)) => sent[c] = 1

\* C2 witness: two admitted tasks are through, one answered by a worker and
\* one by the dispatcher, each with exactly one result.
C2_Witness ==
  \E a, b \in Calls :
    /\ {a, b} \subseteq admitted /\ ~Pending(a) /\ ~Pending(b)
    /\ executed[a] = 1 /\ sent[a] = 1
    /\ executed[b] = 0 /\ sent[b] = 1

\* C3 as claimed: queuedCount never exceeds the configured QueueSize.
C3_Original == queuedCount <= queueSize

\* C3 amended: queuedCount never exceeds QueueSize + 1; the task the
\* dispatcher has dequeued stays counted until it is handed off or failed.
C3_QueuedCountBound == queuedCount <= queueSize + 1

\* C3 witness: the queue is full and the dispatcher holds one more counted
\* task, after it has decremented for an earlier one.
C3_Witness ==
  /\ queuedCount = queueSize + 1
  /\ Len(taskQueue) = queueSize
  /\ \E d \in Dispatchers : dpc[d] = "getWorker"
  /\ \E c \in DOMAIN decrements : decrements[c] = 1

\* SubmitRequest calls that incremented totalRequests and have not returned.
InFlight == {c \in Calls : spc[c] \in {"enqueue", "count", "wait"}}

\* C4: processedCount + failedCount + the number of counted calls that have
\* not returned equals totalRequests.
C4_CounterConsistency ==
  processedCount + failedCount + Cardinality(InFlight) = totalRequests

\* C4 witness: one call was counted processed, another failed.
C4_Witness ==
  /\ processedCount = 1
  /\ failedCount = 1
  /\ totalRequests = 2
  /\ InFlight = {}

\* C5: a task the dispatcher has removed from the queue entered the queue
\* before every task that is still in it, and the queue holds its tasks in
\* the order they entered.
C5_FifoDispatch ==
  /\ \A d \in Dispatchers : \A u \in Range(taskQueue) :
       (dtask[d] # 0 /\ ticket[dtask[d]] # 0) => ticket[dtask[d]] < ticket[u]
  /\ \A i, j \in 1..Len(taskQueue) :
       i < j => ticket[taskQueue[i]] < ticket[taskQueue[j]]

\* C5 witness: the dispatcher holds the task that entered first while two
\* later tasks, or one, wait in the queue in their order of entry.
C5_Witness ==
  \E d \in Dispatchers :
    /\ dpc[d] = "getWorker"
    /\ taskQueue # <<>>
    /\ ticket[dtask[d]] = 1
    /\ ticket[Head(taskQueue)] = 2

\* C6 as claimed: once Stop has returned no ProcessRequest invocation is in
\* progress or starts, every worker has left its loop, and no TaskResult is
\* sent any more.
C6_Original ==
  /\ [](stopReturned /\ running = 0 =>
          inProgress = 0 /\ \A w \in Workers : ~IsRunning(w))
  /\ [][stopReturned /\ running = 0 =>
          sent' = sent /\ executed' = executed]_vars

\* The result kind the claims call Shutdown; no statement of the code
\* creates it.
ErrShutdown == "shutdown"

\* C7 as claimed: a task that was in the queue when Stop was called is
\* never executed by a worker and the TaskResult produced for it is the
\* Shutdown error.
C7_Original ==
  \A c \in queuedAtStop :
    /\ executed[c] = 0
    /\ sent[c] > 0 => Produced(c).kind = ErrShutdown

\* C8: a SubmitRequest call that finds running = 0 returns the not-running
\* error at once, creates and enqueues no task, invokes no processor and
\* leaves the four counters unchanged.
C8_NotRunningFailsFast ==
  [][\A c \in Calls :
       (spc[c] = "idle" /\ spc'[c] # "idle" /\ running = 0) =>
          /\ spc'[c] = "done"
          /\ ret'[c] = TaskResult(ErrNotRunning, c)
          /\ UNCHANGED <<totalRequests, queuedCount, processedCount,
                         failedCount, taskQueue, admitted, enqueues,
                         Response, executed, inProgress>>]_vars

\* C8 witness: a call made after Stop returned not-running, and so did not
\* count, while an earlier call was counted.
C8_Witness ==
  /\ stopReturned
  /\ totalRequests = 1
  /\ \E c \in Calls : spc[c] = "done" /\ ret[c].kind = ErrNotRunning

\* C9: a SubmitRequest call whose ctx is cancelled while it waits in the
\* first or in the second select returns, whatever the dispatcher, the
\* workers and the processor do; a call whose blocked select the
\* cancellation woke returns the context's error; and a call that returns
\* the context's error was cancelled and counts as failed, not as
\* processed.
C9_CancellationReturns ==
  /\ \A c \in Calls :
       (cancelled[c] /\ spc[c] \in {"enqueue", "wait"}) ~> (spc[c] = "done")
  /\ [][\A c \in Calls :
          (spc[c] # "done" /\ spc'[c] = "done") =>
             /\ c \in ctxWoke => ret'[c].kind = ErrContext
             /\ ret'[c].kind = ErrContext =>
                  /\ cancelled[c]
                  /\ failedCount' = failedCount + 1
                  /\ processedCount' = processedCount]_vars

\* C9 witness: a call that was blocked in its second select when its ctx
\* was cancelled has returned the context's error while a worker is still
\* inside ProcessRequest for its task.
C9_Witness ==
  \E c \in Calls : \E w \in Workers :
    /\ c \in ctxWoke
    /\ spc[c] = "done" /\ ret[c].kind = ErrContext
    /\ wpc[w] = "processing" /\ wtask[w] = c

\* C10 as claimed: a call cancelled after its task was handed to a worker
\* counts as failed and not as processed, however it returns.
C10_Original ==
  [][\A c \in cancelledAfterHandoff :
       (spc[c] # "done" /\ spc'[c] = "done") =>
          /\ failedCount' = failedCount + 1
          /\ processedCount' = processedCount]_vars

\* C10 amended: such a call counts exactly once: as processed when its
\* select reads a TaskResult without error, as failed in every other case.
C10_CancelledAfterHandoff ==
  [][\A c \in cancelledAfterHandoff :
       (spc[c] # "done" /\ spc'[c] = "done") =>
          IF ret'[c].kind = "ok"
            THEN /\ processedCount' = processedCount + 1
                 /\ failedCount' = failedCount
            ELSE /\ failedCount' = failedCount + 1
                 /\ processedCount' = processedCount]_vars

\* C10 witness: a call cancelled after the hand-off returned the worker's
\* response and was counted processed.
C10_Witness ==
  \E c \in cancelledAfterHandoff :
    /\ spc[c] = "done" /\ ret[c].kind = "ok"
    /\ processedCount = 1 /\ failedCount = 0

\* C11: a call that leaves the second select by the RequestTimeout branch
\* returns the request-timeout error and adds 1 to failedCount only; from
\* then on what it returned never changes, and a TaskResult sent for its
\* task afterwards stays in the Response buffer, is returned to no caller
\* and changes neither processedCount nor failedCount.
C11_LateResultDiscarded ==
  [][\A c \in Calls :
       /\ (spc[c] = "wait" /\ spc'[c] = "done"
              /\ ret'[c].kind = ErrRequestTimeout) =>
            /\ failedCount' = failedCount + 1
            /\ processedCount' = processedCount
            /\ Response'[c] = Response[c]
       /\ (spc[c] = "done" /\ ret[c].kind = ErrRequestTimeout) =>
            /\ spc'[c] = "done"
            /\ ret'[c] = ret[c]
            /\ Len(Response'[c]) >= Len(Response[c])
            /\ sent'[c] # sent[c] =>
                 /\ ret' = ret
                 /\ processedCount' = processedCount
                 /\ failedCount' = failedCount]_vars

\* C11 witness: a call returned the request-timeout error, was counted
\* failed once, and the worker's result for its task arrived afterwards and
\* lies unread in the Response buffer.
C11_Witness ==
  \E c \in Calls :
    /\ spc[c] = "done" /\ ret[c].kind = ErrRequestTimeout
    /\ executed[c] = 1 /\ sent[c] = 1 /\ Response[c] # <<>>
    /\ failedCount = 1 /\ processedCount = 0

\* C12: a call that leaves the first select by the QueueTimeout branch found
\* the queue full, returns the queue-full error and adds 1 to failedCount
\* only, with queuedCount and the queue unchanged; its task never enters
\* the queue, is never executed and gets no TaskResult.
C12_QueueFullRejects ==
  /\ [](\A c \in Calls :
         (spc[c] = "done" /\ ret[c].kind = ErrQueueFull) =>
            /\ c \notin admitted
            /\ c \notin Range(taskQueue)
            /\ executed[c] = 0
            /\ sent[c] = 0)
  /\ [][\A c \in Calls :
          (spc[c] = "enqueue" /\ spc'[c] = "done"
             /\ ret'[c].kind = ErrQueueFull) =>
            /\ Len(taskQueue) = queueSize
            /\ failedCount' = failedCount + 1
            /\ UNCHANGED <<queuedCount, taskQueue, processedCount,
                           totalRequests, admitted, executed>>]_vars

\* C12 witness: a call was rejected with the queue-full error while the
\* queue is still full of other calls' tasks.
C12_Witness ==
  \E c \in Calls :
    /\ spc[c] = "done" /\ ret[c].kind = ErrQueueFull
    /\ Len(taskQueue) = queueSize
    /\ failedCount = 1
    /\ queuedCount = queueSize

\* C14: a call that reads a TaskResult returns exactly that result: a
\* response counts as processed only, an error is returned as it is and
\* counts as failed only; and every TaskResult in a task's Response channel
\* or returned by a call was produced for that call's own task, a
\* processor's response or error only after the processor ran for it.
C14_ResultPassThrough ==
  /\ [](\A c \in Calls :
         /\ ret[c].kind # "none" => ret[c].of = c
         /\ \A i \in 1..Len(Response[c]) : Response[c][i].of = c
         /\ Produced(c).kind \in {"ok", "processor error"} => executed[c] >= 1)
  /\ [][\A c \in Calls :
          (spc[c] = "wait" /\ spc'[c] = "done" /\ Response'[c] # Response[c]) =>
            /\ ret'[c] = Head(Response[c])
            /\ IF Head(Response[c]).kind = "ok"
                 THEN /\ processedCount' = processedCount + 1
                      /\ failedCount' = failedCount
                 ELSE /\ failedCount' = failedCount + 1
                      /\ processedCount' = processedCount]_vars

\* C14 witness: one call returned its processor's response and another call
\* its processor's error, each for its own task.
C14_Witness ==
  \E a, b \in Calls :
    /\ spc[a] = "done" /\ ret[a] = TaskResult("ok", a)
    /\ spc[b] = "done" /\ ret[b] = TaskResult("processor error", b)
    /\ executed[a] = 1 /\ executed[b] = 1

\* C15: a Start call that finds the manager running returns the
\* already-running error and changes nothing else: no dispatcher is added,
\* no worker's loop is touched, and the manager stays running and healthy.
C15_StartAlreadyRunning ==
  [][(running = 1 /\ lifecycle' # lifecycle /\ lifecycle' # StopDone) =>
       /\ lifecycle' = ErrAlreadyRunning
       /\ IsHealthy'
       /\ UNCHANGED <<starts, dispVars, workVars, quit, taskQueue,
                      taskQueueClosed, workerPool, cntVars, crashed, subVars,
                      Response, sent, invVars, ordVars>>]_vars

\* C15 witness: Start returned the already-running error while a worker is
\* inside ProcessRequest and a task waits in the queue.
C15_Witness ==
  /\ lifecycle = ErrAlreadyRunning
  /\ running = 1 /\ starts = 1
  /\ \E w \in Workers : wpc[w] = "processing"
  /\ taskQueue # <<>>

\* C16: a Stop call that closes the queue leaves the manager not healthy,
\* and a Stop call that finds the manager not running returns without
\* closing the task queue, without closing a quit channel and without any
\* other change of state.
C16_StopIdempotent ==
  [][/\ (running = 1 /\ lifecycle' = StopDone /\ lifecycle # StopDone) =>
          ~IsHealthy'
     /\ (running = 0 /\ lifecycle' # lifecycle /\ lifecycle' # StartOk) =>
          /\ lifecycle' = StopNoop
          /\ ~IsHealthy'
          /\ UNCHANGED <<taskQueueClosed, quit, starts, dispVars, workVars,
                         taskQueue, workerPool, cntVars, crashed, subVars,
                         Response, sent, invVars, ordVars, stopReturned,
                         queuedAtStop>>]_vars

\* C16 witness: a second Stop has returned after the first one closed the
\* queue, while a worker still runs and the process has not panicked.
C16_Witness ==
  /\ lifecycle = StopNoop
  /\ stopReturned /\ taskQueueClosed /\ ~crashed
  /\ running = 0
  /\ \E w \in Workers : IsRunning(w)

\* C17: with every goroutine scheduled and every timer firing, a
\* SubmitRequest call that has passed the running check eventually returns,
\* and a task in the queue is eventually handed to a worker or completed
\* with an error by the dispatcher.
C17_NoStarvation ==
  /\ \A c \in Calls : (spc[c] \in {"enqueue", "count", "wait"}) ~> (spc[c] = "done")
  /\ \A c \in Calls : (c \in Range(taskQueue)) ~> (executed[c] + sent[c] >= 1)

\* C17 witness: a task that waited in the queue behind a task whose
\* processor invocation has not returned was completed by the dispatcher,
\* and its call has returned.
C17_Witness ==
  \E a, b \in Calls : \E w \in Workers :
    /\ wpc[w] = "processing" /\ wtask[w] = a
    /\ b \in admitted /\ b # a /\ executed[b] = 0 /\ sent[b] = 1
    /\ spc[b] = "done"

\* C18: whenever an invocation of the processor ends, by a return or by a
\* panic, the process has not crashed, exactly one TaskResult has been sent
\* for the task (the processor's response or error, or the internal error
\* of the recovered panic), and the worker is back at the point of its loop
\* where it publishes its slot in workerPool.
C18_PanicRecovered ==
  [][inProgress' < inProgress =>
       /\ ~crashed'
       /\ \E w \in Workers :
            LET t == wtask[w]
            IN /\ wpc[w] = "processing" /\ wpc'[w] = "register"
               /\ sent'[t] = 1
               /\ Response'[t] # Response[t] =>
                    /\ Response'[t] = Append(Response[t], Head(Response'[t]))
                    /\ Head(Response'[t]).of = t
                    /\ Head(Response'[t]).kind
                         \in {"ok", "processor error", ErrInternal}
                    /\ faults' = faults => Head(Response'[t]).kind = "ok"]_vars

\* C18 witness: a task was answered with the internal error of a recovered
\* panic, and a worker is executing a later task.
C18_Witness ==
  \E a, b \in Calls : \E w \in Workers :
    /\ Produced(a).kind = ErrInternal /\ sent[a] = 1
    /\ a < b /\ wpc[w] = "processing" /\ wtask[w] = b

\* C19 as claimed: when SubmitRequest fails with the processing-timeout
\* error "request timeout after <RequestTimeout>", Chat responds with
\* status 408.
C19_Original ==
  (chatPc = "done" /\ \E d \in Durations : chatErr = MsgRequestTimeout(d)) =>
     chatStatus = 408

\* C20 as claimed: the MCPResponse a ProcessRequest call returns is decoded
\* from a frame whose id is the id of the request that call wrote, and a
\* frame that answers no request is returned to no caller.
C20_Original ==
  \A c \in ClientCalls :
    (cpc[c] = "done" /\ cid[c] # 0) => cret[c].from = cid[c]

\* C13: with one worker, QueueSize 2 and a processor slower than
\* QueueTimeout, once each of six concurrent SubmitRequest calls that found
\* the manager running is past its first select, at least one of them has
\* returned the queue-full error.
C13_BurstQueueFull ==
  (MaxWorkers = 1 /\ queueSize = 2 /\ BurstCalls >= 6
     /\ totalRequests = BurstCalls /\ BurstEnqueuePhaseOver) =>
       \E c \in BurstCallSet : ret[c].kind = ErrQueueFull

\* C13 witness: one worker and QueueSize 2; five of the six calls were
\* admitted, one of them after the dispatcher gave up a task for lack of a
\* worker, and exactly one call returned the queue-full error.
C13_Witness ==
  /\ MaxWorkers = 1 /\ queueSize = 2 /\ totalRequests = BurstCalls
  /\ BurstEnqueuePhaseOver
  /\ Cardinality(admitted) = BurstCalls - 1
  /\ Cardinality({c \in BurstCallSet : ret[c].kind = ErrQueueFull}) = 1
  /\ \E c \in BurstCallSet : Produced(c).kind = ErrNoWorkers

\* C21: the ids of the frames written to the child, initialize included,
\* are strictly increasing in the order the frames were written, so no id
\* is used for two frames.
C21_IdsIncrease ==
  \A i, j \in 1..Len(written) : i < j => written[i] < written[j]

\* C21 witness: two ProcessRequest calls wrote frames to the first child
\* and, after Stop and a second Start, one wrote a frame to the second.
C21_Witness ==
  /\ spawned = 2
  /\ Len(written) = 5
  /\ \A c \in ClientCalls : cid[c] # 0 /\ cpc[c] \in {"read", "done"}

\* C22 as claimed: while a ProcessRequest call is blocked in readResponse
\* waiting for a line of the child, no ProcessRequest, Start or Stop call
\* waits for a mutex that call holds.
C22_Original ==
  \A c \in ClientCalls :
    (cpc[c] = "read" /\ stdout = <<>> /\ cmd \in alive) =>
      ~(mutex = c /\ \E o \in ClientCallers \ {c} : cpc[o] = "lock")

\* C23 as claimed: a ProcessRequest call that has written its tools/call
\* request and waits for the response eventually returns, whether or not
\* the child replies and whether or not its ctx is cancelled.
C23_Original ==
  \A c \in ClientCalls : (cpc[c] = "read") ~> (cpc[c] = "done")

\* C24 as claimed: when Start has returned the error of a failed
\* initialize exchange, the client is not running and the child that Start
\* spawned is not alive.
C24_Original ==
  (cpc[StartCall] = "done"
     /\ cret[StartCall].kind = "failed to initialize MCP connection") =>
       (~clientRunning /\ cmd \notin alive)

\* C25 as claimed: a Stop that is invoked while a ProcessRequest call
\* awaits its response completes, whether or not the child replies.
C25_Original ==
  (cpc[StopCall] = "lock" /\ \E c \in ClientCalls : cpc[c] = "read")
    ~> (cpc[StopCall] = "done")

\* C26 as claimed: once Stop has returned after closing the client, no
\* step makes the client running again or spawns another child, and a
\* frame is written for a ProcessRequest call only while the client is
\* running.
C26_Original ==
  [][/\ (cpc[StopCall] = "done" /\ cret[StopCall].kind = "stopped") =>
          (~clientRunning' /\ spawned' = spawned)
     /\ \A c \in ClientCalls :
          (cpc[c] = "lock" /\ cpc'[c] = "read") => clientRunning]_vars

\* C27: the step in which ProcessRequest serves a direct_response request
\* writes no frame to the child, reads no line of it and allocates no
\* request id; on a running client, for parameters that hold a response
\* string, it returns the direct result whose content is that string.
C27_DirectResponse ==
  [][\A c \in ClientCalls :
       (cpc[c] = "lock" /\ cpc'[c] # "lock"
          /\ creq[c].method = "direct_response") =>
         /\ cpc'[c] = "done"
         /\ stdin' = stdin /\ stdout' = stdout /\ written' = written
         /\ requestID' = requestID /\ cid'[c] = 0
         /\ mutex' = mutex
         /\ (clientRunning /\ creq[c].params.isMap
                /\ creq[c].params.hasResponse) =>
              cret'[c] = MCPResponse("direct", 0, 0, creq[c].params.response)]_vars

\* C27 witness: two direct_response calls with different response strings
\* have returned, each with its own string as content, and the only id
\* allocated so far is that of initialize.
C27_Witness ==
  \E a, b \in ClientCalls :
    /\ cpc[a] = "done" /\ cpc[b] = "done"
    /\ creq[a].method = "direct_response" /\ creq[b].method = "direct_response"
    /\ cret[a] = MCPResponse("direct", 0, 0, <<"hello">>)
    /\ cret[b] = MCPResponse("direct", 0, 0, <<"bye">>)
    /\ requestID = 1 /\ clientRunning

\* C28 as claimed: when the line ProcessRequest reads carries an error
\* object, the response it returns has the code and the message of that
\* error object.
C28_Original ==
  [][\A c \in ClientCalls :
       (cpc[c] = "read" /\ cpc'[c] = "done" /\ stdout # <<>>
          /\ Head(stdout).kind = "error") =>
         /\ cret'[c].code = Head(stdout).code
         /\ cret'[c].text = Head(stdout).text]_vars

\* C29: whatever the days argument of a forecast request and whichever
\* handler serves it, the provider is queried for d days with 1 <= d <= 5:
\* the cnt of the query is 8*d.
C29_DaysBound ==
  fpc = "queried" => \E d \in 1..5 : fcnt = d * 8

\* C29 witness: a handler passed 7 days on, and the provider was queried
\* for one day.
C29_Witness ==
  /\ fpc = "queried" /\ fpath = "WeatherMCPServer"
  /\ farg.number /\ farg.tenths = 75 /\ fdays = 7 /\ fcnt = 8

\* Number of ProcessRequest invocations made for the tasks of S.
RECURSIVE Invocations(_)
Invocations(S) ==
  IF S = {} THEN 0
  ELSE LET c == CHOOSE x \in S : TRUE
       IN executed[c] + Invocations(S \ {c})

\* C30: the processor is invoked at most once for each task, and no two
\* workers execute the same task; a call that returned the processor's
\* response had its task executed exactly once, and when all the calls have
\* returned successfully the processor was invoked once per call.
C30_InvokedOnce ==
  /\ \A c \in Calls : executed[c] <= 1
  /\ \A c \in Calls :
       Cardinality({w \in Workers : wpc[w] = "processing" /\ wtask[w] = c}) <= 1
  /\ \A c \in Calls : (spc[c] = "done" /\ ret[c].kind = "ok") => executed[c] = 1
  /\ (\A c \in Calls : spc[c] = "done" /\ ret[c].kind = "ok") =>
       Invocations(Calls) = NumCalls

\* C30 witness: every call has returned the response of the processor, and
\* the processor was invoked once for each of them.
C30_Witness ==
  /\ \A c \in Calls : spc[c] = "done" /\ ret[c] = TaskResult("ok", c)
  /\ Invocations(Calls) = NumCalls
  /\ NumCalls >= 2

\* C31: when the dispatcher gives up waiting for a worker slot, it sends
\* the no-available-workers error for the task it holds and moves on to the
\* decrement that ends its handling of the task; a task that was answered
\* with that error is never executed by a worker.
C31_NoWorkerTimeout ==
  [][/\ \A c \in Calls : Produced(c).kind = ErrNoWorkers => executed[c] = 0
     /\ \A d \in Dispatchers :
          (dpc[d] = "getWorker" /\ workerPool = <<>> /\ sent'[dtask[d]] # sent[dtask[d]]) =>
            /\ Response'[dtask[d]] = <<TaskResult(ErrNoWorkers, dtask[d])>>
            /\ dpc'[d] = "decrement"
            /\ executed' = executed /\ wtask' = wtask
     /\ \A d \in Dispatchers :
          (dpc[d] = "decrement" /\ dpc'[d] # "decrement") =>
            (dpc'[d] = "recv" /\ dtask'[d] = 0)]_vars

\* C31 witness: the first task was answered with the no-available-workers
\* error and not executed, and the dispatcher went on to the next task,
\* which a worker executed.
C31_Witness ==
  \E a, b \in Calls :
    /\ a < b
    /\ Produced(a).kind = ErrNoWorkers /\ executed[a] = 0
    /\ executed[b] = 1

\* C32 as claimed: in every reachable state workerPool holds at most
\* MaxWorkers slots, no slot twice, and each slot belongs to a worker that
\* is blocked waiting for a task on it.  A worker that has just sent its
\* slot and is entering the inner select counts as waiting: it is neither
\* executing a task nor exited.
C32_Original ==
  /\ Len(workerPool) <= MaxWorkers
  /\ \A i, j \in 1..Len(workerPool) : i # j => workerPool[i] # workerPool[j]
  /\ \A i \in 1..Len(workerPool) :
       wpc[workerPool[i]] \in {"published", "waitTask"}

\* The dispatcher has taken the task from the queue and is through with it.
Dispatched(c) ==
  /\ c \in admitted
  /\ c \notin Range(taskQueue)
  /\ \A d \in Dispatchers : dtask[d] # c

\* C33: queuedCount is decremented at most once for a task, not at all
\* while the task is in the queue, and exactly once when the dispatcher is
\* through with it, whether it handed the task to a worker or answered it
\* with one of its two timeout errors; a task answered with the
\* assignment-timeout error is executed by no worker.
C33_DecrementOnce ==
  \A c \in Calls :
    /\ decrements[c] <= 1
    /\ (c \notin admitted \/ c \in Range(taskQueue)) => decrements[c] = 0
    /\ Dispatched(c) =>
         /\ decrements[c] = 1
         /\ \/ executed[c] = 1
            \/ Produced(c).kind \in {ErrAssignTimeout, ErrNoWorkers}
            \/ \E w \in Workers : wtask[w] = c
    /\ Produced(c).kind = ErrAssignTimeout => executed[c] = 0

\* C33 witness: the dispatcher is through with two tasks, one executed by a
\* worker and one answered with the assignment-timeout error and executed
\* by nobody, and queuedCount was decremented once for each.
C33_Witness ==
  \E a, b \in Calls :
    /\ Dispatched(a) /\ Dispatched(b)
    /\ executed[a] = 1 /\ decrements[a] = 1
    /\ Produced(b).kind = ErrAssignTimeout /\ executed[b] = 0
    /\ decrements[b] = 1

\* C34 as stated: a deadline-exceeded error of the worker's own context
\* never reaches the submitter before the manager's RequestTimeout for the
\* task could have fired.
C34_Original == tret = ErrDeadlineExceeded => tat >= RequestTimeout

\* C35: no sender on a task's Response is ever blocked: the worker is
\* never stuck in the send of its deferred recover, a dispatcher is never
\* stuck in the send of one of its errors, and a worker that leaves the
\* processor goes back to its loop in that step, with the buffer of the
\* task holding at most the one result.
C35_NoBlockedSend ==
  [][/\ \A w \in Workers : wpc[w] # "recoverBlocked" /\ wpc'[w] # "recoverBlocked"
     /\ \A d \in Dispatchers : dpc[d] # "sendBlocked" /\ dpc'[d] # "sendBlocked"
     /\ \A c \in Calls : Len(Response'[c]) <= ResponseCap
     /\ \A w \in Workers :
          (wpc[w] = "processing" /\ wpc'[w] # "processing") =>
            (wpc'[w] = "register" /\ wtask'[w] = 0)]_vars

\* C35 witness: a SubmitRequest call returned on its processing timeout,
\* the processor then panicked on its task, and the worker delivered the
\* internal error into the buffer nobody reads and left for its loop.
C35_Witness ==
  \E c \in Calls :
    /\ spc[c] = "done"
    /\ ret[c].kind = ErrRequestTimeout
    /\ Response[c] = <<TaskResult(ErrInternal, c)>>
    /\ \A w \in Workers : wtask[w] # c /\ wpc[w] # "processing"

\* C36 as stated: no SubmitRequest call that is at its send on taskQueue
\* while the queue is closed ends the process; no step from such a state
\* is the panic of a send on a closed channel.
C36_Original ==
  [][~(/\ \E c \in Calls : spc[c] = "enqueue" /\ taskQueueClosed
       /\ ~crashed
       /\ crashed')]_vars

\* C37 as stated: queuedCount is never negative.
C37_Original == queuedCount >= 0

\* The worker can still receive a task: it is on its way to publishing its
\* slot, or it waits on its slot and the slot is in workerPool or in the
\* hands of a dispatcher that is sending to it.
CanReceive(w) ==
  \/ wpc[w] \in {"register", "published", "processing"}
  \/ /\ wpc[w] = "waitTask"
     /\ \/ w \in Range(workerPool)
        \/ \E d \in Dispatchers : dpc[d] = "assign" /\ dworker[d] = w

\* C38 as stated: while the manager is running every one of its MaxWorkers
\* workers can still receive tasks, also after a hand-off to it timed out.
C38_Original == running = 1 => \A w \in Workers : CanReceive(w)

\* C39: the dispatcher treats a task whose SubmitRequest call has returned
\* like any other.  A task leaves taskQueue only from its head and into
\* the hands of a dispatcher; a dispatcher that holds a task and the slot
\* of a waiting worker hands the task over, and the processor is invoked
\* for it; a worker leaves the processor only when the invocation returns;
\* and a task abandoned in the queue that the dispatcher is through with
\* and that has no result yet is being executed by a worker.
C39_AbandonedStillRuns ==
  [][/\ \A c \in Calls :
          (c \in Range(taskQueue) /\ c \notin Range(taskQueue')) =>
            /\ c = Head(taskQueue)
            /\ \E d \in Dispatchers :
                 dpc[d] = "recv" /\ dpc'[d] = "getWorker" /\ dtask'[d] = c
     /\ \A d \in Dispatchers :
          (dpc[d] = "assign" /\ wpc[dworker[d]] = "waitTask" /\ dpc'[d] # "assign") =>
            /\ wpc'[dworker[d]] = "processing"
            /\ wtask'[dworker[d]] = dtask[d]
            /\ executed'[dtask[d]] = executed[dtask[d]] + 1
     /\ \A w \in Workers :
          (wpc[w] = "processing" /\ wpc'[w] # "processing") =>
            inProgress' = inProgress - 1
     /\ \A c \in abandoned :
          (Dispatched(c) /\ sent[c] = 0) =>
            \E w \in Workers : wpc[w] = "processing" /\ wtask[w] = c]_vars

\* C39 witness: a SubmitRequest call returned while its task was in the
\* queue, and the processor is now running for that task on a worker.
C39_Witness ==
  \E c \in abandoned : \E w \in Workers :
    /\ spc[c] = "done"
    /\ ret[c].kind \in {ErrRequestTimeout, ErrContext}
    /\ wpc[w] = "processing"
    /\ wtask[w] = c
    /\ executed[c] = 1

\* The tools/call requests written to the child whose response line the
\* client has not read: those the child has not answered yet and those
\* whose response waits in the pipe.
Outstanding ==
  Cardinality({i \in 1..Len(stdin) : stdin[i].kind = "tools/call"})
    + Cardinality({i \in 1..Len(stdout) :
                     stdout[i].id \in {cid[c] : c \in ClientCalls} \ {0}})

\* C40 as stated: at most one tools/call request of the tool client is
\* outstanding at any time, and a ProcessRequest call writes its request
\* only when the response line of every earlier one has been read.
C40_Original ==
  [][/\ Outstanding <= 1
     /\ \A c \in ClientCalls :
          (cpc[c] = "lock" /\ cpc'[c] = "read") => Outstanding = 0]_vars

=============================================================================
